---- MODULE Spec2Model ----
(***************************************************************************)
(* Generic protobuf wire-format decoder of the telemetry API               *)
(* (services/telemetry-api/pkg/proto/decoder.go) and the operations built  *)
(* on it.                                                                  *)
(*                                                                         *)
(* Unsigned integers of the code (uint64, uint32) do not fit the integers  *)
(* of the model checker, so an unsigned w-bit integer is modelled as the   *)
(* set of the positions of its 1 bits: 0 is {}, 1 is {0}, 150 is           *)
(* {1, 2, 4, 7}, 2^64-1 is 0..63.  Shifts, masks, truncations and the      *)
(* sign of a signed conversion are then exact at the code's width.         *)
(* Bytes, buffer positions and lengths of buffers are small naturals.      *)
(***************************************************************************)
EXTENDS Integers, Sequences, FiniteSets, TLC

VARIABLES
    data,      \* the byte buffer handed to the decoder
    sent,      \* the pieces the sender wrote into data, in order
    cut,       \* number of bytes cut off the end of data afterwards
    pc,        \* position of the caller
    pos,       \* Decode: cursor into data
    fields,    \* Decode: fields appended so far
    iterStart, \* Decode: cursor at the start of the last iteration run, -1 before
    ret,       \* Decode: what the call returned
    val,       \* the uint64 given to encodeVarint
    call,      \* the last call made, with its result
    schema,    \* the measurement schema of the device's app and version
    saves,     \* the calls of telemetryStore.Save, in order, with their outcome
    resp,      \* the HTTP response written
    lastSeen,  \* the device's last-seen time was updated
    published, \* the telemetry events published
    clock,     \* what time.Now() returns to the handler
    runs,      \* the requests handled so far: body, clock, status and readings
    cache,     \* TTL: key to entry (value, expiresAt)
    time,      \* what time.Now() returns to the cache
    ttl,       \* TTL: the duration given to NewTTL
    loadCount, \* the number of calls of the loader so far
    schemaStore, \* the stored schema of the app and version, NoSchema if none
    inflight,  \* the concurrent requests: position and locals of each
    uploader,  \* the concurrent schema upload: its position
    requests,  \* RateLimiter: key to the times of its allowed requests
    limiter,   \* RateLimiter: the window and the limit given to NewRateLimiter
    allowed,   \* the calls of Allow so far: key, time and answer
    devices,   \* the device store: device id to device
    admins,    \* the concurrent admin and device requests: position and locals
    issued,    \* the calls of CreateCustomToken so far: device and request
    answer,    \* the last response written to an auth or admin request
    revocations, \* the devices for which RevokeDevice has answered 200
    arrivals   \* the number of auth and admin requests received so far

\* the state of the telemetry service
cacheVars == <<cache, time, ttl, loadCount>>

concVars == <<schemaStore, inflight, uploader>>

limiterVars == <<requests, limiter, allowed>>

authVars == <<devices, admins, issued, answer, revocations, arrivals>>

accessVars == <<limiterVars, authVars>>

serverVars ==
    <<schema, saves, resp, lastSeen, published, clock, runs, cacheVars, concVars,
      accessVars>>

vars == <<data, sent, cut, pc, pos, fields, iterStart, ret, val, call, serverVars>>

(***************************************************************************)
(* Bit-level arithmetic on unsigned integers                               *)
(***************************************************************************)

\* uint64 and uint32 bit positions
Bits64 == 0..63
Bits32 == 0..31

\* the bits of a small natural n (n < 2^31)
BitsOf(n) == {i \in 0..30 : (n \div (2^i)) % 2 = 1}

RECURSIVE Val(_)
\* the natural a bit set stands for; defined for values below 2^31
Val(s) ==
    IF s = {} THEN 0
    ELSE LET i == CHOOSE j \in s : TRUE IN (2^i) + Val(s \ {i})

\* v fits a small natural
IsSmall(s) == \A i \in s : i <= 30

\* x << k and x >> k on uint64
Shl64(s, k) == {i + k : i \in s} \cap Bits64
Shr(s, k) == {i - k : i \in {j \in s : j >= k}}

RECURSIVE AddCarry(_, _, _, _)
\* bits i..63 of a + b + carry, computed with wrap-around at 64 bits
AddCarry(a, b, i, carry) ==
    IF i > 63 THEN {}
    ELSE LET x == IF i \in a THEN 1 ELSE 0
             y == IF i \in b THEN 1 ELSE 0
             t == x + y + carry
         IN (IF t % 2 = 1 THEN {i} ELSE {}) \cup AddCarry(a, b, i + 1, t \div 2)

\* a + b on 64-bit integers (Go's + wraps around silently)
Add64(a, b) ==
    IF \A i \in a \cup b : i <= 29 THEN BitsOf(Val(a) + Val(b)) ELSE AddCarry(a, b, 0, 0)

\* the 64-bit pattern s read as a signed int is negative
IsNegative(s) == 63 \in s

\* signed comparison  int(s) > n  for a small natural n
SignedGt(s, n) == ~IsNegative(s) /\ (~IsSmall(s) \/ Val(s) > n)

\* signed comparison  int(s) < n  for a small natural n
SignedLt(s, n) == IsNegative(s) \/ (IsSmall(s) /\ Val(s) < n)

(***************************************************************************)
(* Wire types                                                              *)
(***************************************************************************)

WireVarint == 0
WireFixed64 == 1
WireBytes == 2
WireFixed32 == 5

\* Value and Field: every payload member is present, the zero value unless set
NewField(fieldNum, wireType) ==
    [Num |-> fieldNum, WireType |-> wireType,
     Varint |-> {}, Fixed32 |-> {}, Fixed64 |-> {}, Bytes |-> <<>>]

\* data[pos:]
SliceFrom(d, p) == SubSeq(d, p + 1, Len(d))

(***************************************************************************)
(* Varints                                                                 *)
(***************************************************************************)

\* decodeVarint gives up at the byte with this index
MaxVarintLen == 10

\* b < 0x80: the continuation bit is clear
IsLastVarintByte(b) == b < 128

\* the mask 0x7F left out
VarintGroupNoMask(b, shift) == Shl64(BitsOf(b), shift)

\* uint64(b & 0x7F) << shift
VarintGroup(b, shift) == Shl64(BitsOf(b % 128), shift)

\* the bound checked one byte late
VarintTooLongOffByOne(i) == i > MaxVarintLen

\* if i >= 10
VarintTooLong(i) == i >= MaxVarintLen

\* return 0, 0 // overflow
VarintOverflow == [val |-> {}, n |-> 0]

\* return 0, 0 after the loop: the bytes ran out before the last byte of the varint
VarintNoTerminator(result, i) == [val |-> {}, n |-> 0]

RECURSIVE decodeVarintLoop(_, _, _, _)
\* the loop of decodeVarint from index i on, with result and shift so far
decodeVarintLoop(d, i, result, shift) ==
    IF i >= Len(d) THEN VarintNoTerminator(result, i)
    ELSE IF VarintTooLong(i) THEN VarintOverflow
    ELSE LET b == d[i + 1]
             r == result \cup VarintGroup(b, shift)
         IN IF IsLastVarintByte(b) THEN [val |-> r, n |-> i + 1]
            ELSE decodeVarintLoop(d, i + 1, r, shift + 7)

\* decodeVarint: the value and the number of bytes consumed, n = 0 on failure
decodeVarint(d) == decodeVarintLoop(d, 0, {}, 0)

\* byte(val) | 0x80
VarintContByte(v) == Val((v \cap (0..7)) \cup {7})

\* val >= 0x80
NeedsMoreBytes(v) == \E i \in v : i >= 7

RECURSIVE encodeVarint(_)
\* encodeVarint of the decoder's test helpers
encodeVarint(v) ==
    IF NeedsMoreBytes(v)
    THEN <<VarintContByte(v)>> \o encodeVarint(Shr(v, 7))
    ELSE <<Val(v \cap (0..7))>>

\* encodeTag of the test helpers: fieldNum << 3 is computed on uint32
encodeTag(fieldNum, wireType) ==
    encodeVarint((Shl64(fieldNum, 3) \cap Bits32) \cup BitsOf(wireType))

(***************************************************************************)
(* Fixed-width little-endian values                                        *)
(***************************************************************************)

\* binary.LittleEndian.Uint32 / Uint64 of the n bytes of d that follow position p
LittleEndianUint(d, p, n) ==
    UNION {Shl64(BitsOf(d[p + k]), 8 * (k - 1)) : k \in 1..n}

\* binary.LittleEndian.PutUint32 / PutUint64: the n bytes of v
LittleEndianPut(v, n) ==
    [k \in 1..n |-> Val(Shr(v, 8 * (k - 1)) \cap (0..7))]

\* the encoding of one field, as the decoder's tests build it
EncodeField(f) ==
    encodeTag(f.Num, f.WireType) \o
    (CASE f.WireType = WireVarint -> encodeVarint(f.Varint)
       [] f.WireType = WireFixed64 -> LittleEndianPut(f.Fixed64, 8)
       [] f.WireType = WireBytes -> encodeVarint(BitsOf(Len(f.Bytes))) \o f.Bytes
       [] f.WireType = WireFixed32 -> LittleEndianPut(f.Fixed32, 4))

(***************************************************************************)
(* Decode                                                                  *)
(***************************************************************************)

\* fieldNum := uint32(tag >> 3)
TagFieldNum(tag) == Shr(tag, 3) \cap Bits32

\* wireType := WireType(tag & 0x7)
TagWireType(tag) == Val(tag \cap (0..2))

\* pos+int(length), on Go's 64-bit int
BytesEnd(p, length) == Add64(BitsOf(p), length)

\* pos+int(length) > len(data)
BytesExceed(p, length, n) == SignedGt(BytesEnd(p, length), n)

\* pos+4 > len(data), pos+8 > len(data)
FixedExceeds(p, width, n) == p + width > n

IterError(p, msg) == [status |-> "error", err |-> msg, pos |-> p, field |-> NewField({}, 0)]

IterPanic(p) == [status |-> "panic", err |-> "slice bounds out of range", pos |-> p, field |-> NewField({}, 0)]

IterOk(p, f) == [status |-> "ok", err |-> "", pos |-> p, field |-> f]

\* case WireVarint
IterVarint(d, p, field) ==
    LET v == decodeVarint(SliceFrom(d, p))
    IN IF v.n = 0 THEN IterError(p, "failed to decode varint")
       ELSE IterOk(p + v.n, [field EXCEPT !.Varint = v.val])

\* case WireFixed64
IterFixed64(d, p, field) ==
    IF FixedExceeds(p, 8, Len(d)) THEN IterError(p, "not enough data for fixed64")
    ELSE IterOk(p + 8, [field EXCEPT !.Fixed64 = LittleEndianUint(d, p, 8)])

\* case WireBytes; slicing data[pos : end] panics unless pos <= end <= cap(data)
IterBytes(d, p, field) ==
    LET l == decodeVarint(SliceFrom(d, p))
        p2 == p + l.n
        end == BytesEnd(p2, l.val)
    IN IF l.n = 0 THEN IterError(p, "failed to decode length")
       ELSE IF BytesExceed(p2, l.val, Len(d)) THEN IterError(p2, "bytes length exceeds data")
       ELSE IF SignedLt(end, p2) THEN IterPanic(p2)
       ELSE IterOk(Val(end), [field EXCEPT !.Bytes = SubSeq(d, p2 + 1, Val(end))])

\* case WireFixed32
IterFixed32(d, p, field) ==
    IF FixedExceeds(p, 4, Len(d)) THEN IterError(p, "not enough data for fixed32")
    ELSE IterOk(p + 4, [field EXCEPT !.Fixed32 = LittleEndianUint(d, p, 4)])

\* the switch on the wire type
IterPayload(d, p, field) ==
    CASE field.WireType = WireVarint -> IterVarint(d, p, field)
      [] field.WireType = WireFixed64 -> IterFixed64(d, p, field)
      [] field.WireType = WireBytes -> IterBytes(d, p, field)
      [] field.WireType = WireFixed32 -> IterFixed32(d, p, field)
      [] OTHER -> IterError(p, "unknown wire type")

\* one iteration of the loop of Decode, started with the cursor at p < len(data)
DecodeIter(d, p) ==
    LET t == decodeVarint(SliceFrom(d, p))
    IN IF t.n = 0 THEN IterError(p, "failed to decode tag")
       ELSE IterPayload(d, p + t.n, NewField(TagFieldNum(t.val), TagWireType(t.val)))

\* what Decode returns, with the cursor at the return
Returned(status, msg, err, p) ==
    [status |-> status, msg |-> msg, err |-> err, pos |-> p]

\* return fields, err
ReturnErrorWithFields(r, fs) == Returned(r.status, fs, r.err, r.pos)

\* return nil, err: the fields decoded so far are dropped
ReturnError(r, fs) == Returned(r.status, <<>>, r.err, r.pos)

\* return fields, nil
ReturnFields(fs, p) == Returned("ok", fs, "", p)

\* the field put in front of the others
PrependField(fs, f) == <<f>> \o fs

\* fields = append(fields, field)
AppendField(fs, f) == Append(fs, f)

\* for pos < len(data)
LoopContinues(d, p) == p < Len(d)

RECURSIVE DecodeLoop(_, _, _)
DecodeLoop(d, p, fs) ==
    IF LoopContinues(d, p)
    THEN LET r == DecodeIter(d, p)
         IN IF r.status = "ok" THEN DecodeLoop(d, r.pos, AppendField(fs, r.field))
            ELSE ReturnError(r, fs)
    ELSE ReturnFields(fs, p)

\* Decode(data)
Decode(d) == DecodeLoop(d, 0, <<>>)

(***************************************************************************)
(* Message look-ups and DecodeRepeated                                     *)
(***************************************************************************)

\* m[i].Num == fieldNum
NumMatches(f, fieldNum) == f.Num = fieldNum

RECURSIVE GetFieldLoop(_, _, _)
GetFieldLoop(m, fieldNum, i) ==
    IF i > Len(m) THEN 0
    ELSE IF NumMatches(m[i], fieldNum) THEN i
    ELSE GetFieldLoop(m, fieldNum, i + 1)

\* GetField: the pointer &m[i] is the index i, nil is 0
GetField(m, fieldNum) == GetFieldLoop(m, fieldNum, 1)

RECURSIVE GetAllFieldsLoop(_, _, _, _)
GetAllFieldsLoop(m, fieldNum, i, fs) ==
    IF i > Len(m) THEN fs
    ELSE GetAllFieldsLoop(m, fieldNum, i + 1,
                          IF NumMatches(m[i], fieldNum) THEN Append(fs, m[i]) ELSE fs)

\* only the first match given back
GetAllFieldsFirstOnly(m, fieldNum) ==
    IF GetField(m, fieldNum) = 0 THEN <<>> ELSE <<m[GetField(m, fieldNum)]>>

\* GetAllFields
GetAllFields(m, fieldNum) == GetAllFieldsLoop(m, fieldNum, 1, <<>>)

\* the wire type not looked at
SkipsNoField(f) == FALSE

\* if field.Value.WireType != WireBytes { continue }
SkipsField(f) == f.WireType # WireBytes

\* what DecodeRepeated returns, with the number of nested Decode calls it made
RepeatedResult(status, msgs, err, decodes) ==
    [status |-> status, msgs |-> msgs, err |-> err, decodes |-> decodes]

\* return nil, fmt.Errorf("failed to decode embedded message: %w", err)
EmbeddedFailure(embedded, result) ==
    RepeatedResult(embedded.status, <<>>, "failed to decode embedded message",
                   Len(result) + 1)

RECURSIVE DecodeRepeatedLoopTwice(_, _, _)
\* a loop that decodes every embedded message twice
DecodeRepeatedLoopTwice(fs, i, result) ==
    IF i > Len(fs) THEN RepeatedResult("ok", result, "", Len(result))
    ELSE IF SkipsField(fs[i]) THEN DecodeRepeatedLoopTwice(fs, i + 1, result)
    ELSE LET embedded == Decode(fs[i].Bytes)
         IN IF embedded.status # "ok" THEN EmbeddedFailure(embedded, result)
            ELSE DecodeRepeatedLoopTwice(fs, i + 1,
                                         Append(Append(result, embedded.msg), embedded.msg))

RECURSIVE DecodeRepeatedLoop(_, _, _)
DecodeRepeatedLoop(fs, i, result) ==
    IF i > Len(fs) THEN RepeatedResult("ok", result, "", Len(result))
    ELSE IF SkipsField(fs[i]) THEN DecodeRepeatedLoop(fs, i + 1, result)
    ELSE LET embedded == Decode(fs[i].Bytes)
         IN IF embedded.status # "ok" THEN EmbeddedFailure(embedded, result)
            ELSE DecodeRepeatedLoop(fs, i + 1, Append(result, embedded.msg))

\* DecodeRepeated(data, fieldNum)
DecodeRepeated(d, fieldNum) ==
    LET outer == Decode(d)
    IN IF outer.status # "ok"
       THEN RepeatedResult(outer.status, <<>>, "failed to decode outer message", 0)
       ELSE DecodeRepeatedLoop(GetAllFields(outer.msg, fieldNum), 1, <<>>)

(***************************************************************************)
(* Value interpretation and conversion to float64                          *)
(*                                                                         *)
(* A float32 or float64 is its IEEE 754 bit pattern, a signed integer its  *)
(* two's complement pattern at its width.                                  *)
(***************************************************************************)

\* Value.AsFloat32 .. Value.AsBool
\* an accessor that reads the member the wire type filled
AsFloat32AnyWire(f) == IF f.WireType = WireVarint THEN f.Varint \cap Bits32 ELSE f.Fixed32

AsFloat32(f) == f.Fixed32
AsFloat64(f) == f.Fixed64
AsInt32(f) == f.Varint \cap Bits32
AsInt64(f) == f.Varint
AsUint32(f) == f.Varint \cap Bits32
AsUint64(f) == f.Varint
AsBool(f) == f.Varint # {}

\* a ^ b on bit patterns
Xor(a, b) == (a \ b) \cup (b \ a)

\* the sign not restored
ZigZagNoSign(v) == Shr(v, 1)

\* (v.Varint >> 1) ^ -(v.Varint & 1) on uint64
ZigZag(v) == Xor(Shr(v, 1), IF 0 \in v THEN Bits64 ELSE {})

\* Value.AsSint32, Value.AsSint64: the result is the two's complement pattern
AsSint32(f) == ZigZag(f.Varint) \cap Bits32
AsSint64(f) == ZigZag(f.Varint)

\* the zig-zag encoding of a signed 32-bit n, (n << 1) ^ (n >> 31), sent as a
\* varint of the unsigned 32-bit result
EncodeZigZag32(n) ==
    Xor({i + 1 : i \in n} \cap Bits32, IF 31 \in n THEN Bits32 ELSE {})

\* the zig-zag encoding of a signed 64-bit n, (n << 1) ^ (n >> 63)
EncodeZigZag64(n) == Xor(Shl64(n, 1), IF 63 \in n THEN Bits64 ELSE {})

\* the highest 1 bit of a value that is not 0
TopBit(s) == CHOOSE i \in s : \A j \in s : j <= i

\* -x on 64 bits
Neg64(s) == Add64(Bits64 \ s, {0})

\* int64(x) for an int32 x
SignExtend32(s) == IF 31 \in s THEN s \cup (32..63) ELSE s

\* float64(x) for a float32 x: exact, subnormals become normal numbers
Float32To64(s) ==
    LET sign == IF 31 \in s THEN {63} ELSE {}
        e == Val(Shr(s \cap (23..30), 23))
        m == s \cap (0..22)
    IN IF e = 255 THEN sign \cup (52..62) \cup Shl64(m, 29) \cup (IF m = {} THEN {} ELSE {51})
       ELSE IF e = 0
       THEN IF m = {} THEN sign
            ELSE sign \cup Shl64(BitsOf(TopBit(m) + 874), 52)
                      \cup Shl64(m \ {TopBit(m)}, 52 - TopBit(m))
       ELSE sign \cup Shl64(BitsOf(e + 896), 52) \cup Shl64(m, 29)

\* float64(x) for a uint64 x: rounded to the nearest float64, ties to even
Uint64ToFloat64(s) ==
    IF s = {} THEN {}
    ELSE LET t == TopBit(s)
             k == t - 52
         IN IF t <= 52
            THEN Shl64(BitsOf(t + 1023), 52) \cup Shl64(s \ {t}, 52 - t)
            ELSE LET half == (k - 1) \in s
                     sticky == \E i \in s : i < k - 1
                     odd == k \in s
                     up == half /\ (sticky \/ odd)
                 IN Add64(Shl64(BitsOf(t + 1023), 52) \cup Shr(s \ {t}, k),
                          IF up THEN {0} ELSE {})

\* float64(x) for an int64 x
Int64ToFloat64(s) ==
    IF IsNegative(s) THEN {63} \cup Uint64ToFloat64(Neg64(s)) ELSE Uint64ToFloat64(s)

\* the float64 1
Float64One == 52..61

\* Measurement.Value: a Go interface value is its dynamic type and its bits
NilValue == [type |-> "nil", bits |-> {}]
TypedValue(type, bits) == [type |-> type, bits |-> bits]

\* a type switch without the case for bool
toFloat64NoBool(v) ==
    CASE v.type = "float32" -> [val |-> Float32To64(v.bits), err |-> FALSE]
      [] v.type = "float64" -> [val |-> v.bits, err |-> FALSE]
      [] v.type = "int32" -> [val |-> Int64ToFloat64(SignExtend32(v.bits)), err |-> FALSE]
      [] v.type = "int64" -> [val |-> Int64ToFloat64(v.bits), err |-> FALSE]
      [] v.type = "uint32" -> [val |-> Uint64ToFloat64(v.bits), err |-> FALSE]
      [] v.type = "uint64" -> [val |-> Uint64ToFloat64(v.bits), err |-> FALSE]
      [] OTHER -> [val |-> {}, err |-> TRUE]

\* toFloat64
toFloat64(v) ==
    CASE v.type = "float32" -> [val |-> Float32To64(v.bits), err |-> FALSE]
      [] v.type = "float64" -> [val |-> v.bits, err |-> FALSE]
      [] v.type = "int32" -> [val |-> Int64ToFloat64(SignExtend32(v.bits)), err |-> FALSE]
      [] v.type = "int64" -> [val |-> Int64ToFloat64(v.bits), err |-> FALSE]
      [] v.type = "uint32" -> [val |-> Uint64ToFloat64(v.bits), err |-> FALSE]
      [] v.type = "uint64" -> [val |-> Uint64ToFloat64(v.bits), err |-> FALSE]
      [] v.type = "bool" -> [val |-> IF v.bits # {} THEN Float64One ELSE {}, err |-> FALSE]
      [] OTHER -> [val |-> {}, err |-> TRUE]

(***************************************************************************)
(* decodeMeasurementBatch                                                  *)
(***************************************************************************)

\* Measurement proto field numbers
measurementFieldID == BitsOf(1)
measurementFieldFloat == BitsOf(2)
measurementFieldDouble == BitsOf(3)
measurementFieldInt32 == BitsOf(4)
measurementFieldInt64 == BitsOf(5)
measurementFieldUint32 == BitsOf(6)
measurementFieldUint64 == BitsOf(7)
measurementFieldBool == BitsOf(8)

Measurement(id, value) == [ID |-> id, Value |-> value]

\* the switch on field.Num: the cases that set m.Value
IsValueField(f) ==
    f.Num \in {measurementFieldFloat, measurementFieldDouble, measurementFieldInt32,
               measurementFieldInt64, measurementFieldUint32, measurementFieldUint64,
               measurementFieldBool}

\* the value a case of the switch assigns
OneofValue(f) ==
    CASE f.Num = measurementFieldFloat -> TypedValue("float32", AsFloat32(f))
      [] f.Num = measurementFieldDouble -> TypedValue("float64", AsFloat64(f))
      [] f.Num = measurementFieldInt32 -> TypedValue("int32", AsInt32(f))
      [] f.Num = measurementFieldInt64 -> TypedValue("int64", AsInt64(f))
      [] f.Num = measurementFieldUint32 -> TypedValue("uint32", AsUint32(f))
      [] f.Num = measurementFieldUint64 -> TypedValue("uint64", AsUint64(f))
      [] f.Num = measurementFieldBool -> TypedValue("bool", IF AsBool(f) THEN {0} ELSE {})

\* the loop without its break: the last value field wins
OneofScanLast(msg, i) ==
    LET S == {j \in i..Len(msg) : IsValueField(msg[j])}
    IN IF S = {} THEN NilValue
       ELSE OneofValue(msg[CHOOSE j \in S : \A k \in S : k <= j])

\* a Measurement whose Value starts as 0.0 instead of nil
OneofScanZero(msg, i) ==
    LET S == {j \in i..Len(msg) : IsValueField(msg[j])}
    IN IF S = {} THEN TypedValue("float64", {})
       ELSE OneofValue(msg[CHOOSE j \in S : \A k \in S : j <= k])

RECURSIVE OneofScan(_, _)
\* for _, field := range msg: the default case continues, any other breaks
OneofScan(msg, i) ==
    IF i > Len(msg) THEN NilValue
    ELSE IF IsValueField(msg[i]) THEN OneofValue(msg[i])
    ELSE OneofScan(msg, i + 1)

\* m.ID: field 1 read as uint32, 0 if the message has no field 1
MeasurementID(msg) ==
    IF GetField(msg, measurementFieldID) = 0 THEN {}
    ELSE AsUint32(msg[GetField(msg, measurementFieldID)])

BatchResult(status, measurements, err) ==
    [status |-> status, measurements |-> measurements, err |-> err]

\* decodeMeasurementBatch(data)
decodeMeasurementBatch(d) ==
    LET r == DecodeRepeated(d, measurementFieldID)
    IN IF r.status # "ok" THEN BatchResult(r.status, <<>>, r.err)
       ELSE BatchResult("ok",
                        [i \in DOMAIN r.msgs |->
                            Measurement(MeasurementID(r.msgs[i]), OneofScan(r.msgs[i], 1))],
                        "")

(***************************************************************************)
(* HandleTelemetryProto                                                    *)
(*                                                                         *)
(* A time.Time is the 64-bit count of milliseconds since the Unix epoch it *)
(* stands for; the zero Time is January 1 of year 1.                       *)
(***************************************************************************)

\* hi * 2^31 + lo as a 64-bit pattern
Wide(hi, lo) == Shl64(BitsOf(hi), 31) \cup BitsOf(lo)

\* the zero time.Time, 62135596800000 ms before the epoch
ZeroTime == [unixMilli |-> Neg64(Wide(28934, 304928768))]

\* time.UnixMilli(msec)
UnixMilli(msec) == [unixMilli |-> msec]

\* t.IsZero()
IsZero(t) == t = ZeroTime

\* the switch on the type of a timestamp measurement's value
TimestampOf(v) ==
    CASE v.type \in {"uint64", "int64", "uint32"} -> UnixMilli(v.bits)
      [] v.type = "int32" -> UnixMilli(SignExtend32(v.bits))
      [] OTHER -> ZeroTime

\* meta, ok := idToMeta[m.ID]; ok && meta.Name == "timestamp"
IsTimestamp(m, idToMeta) ==
    m.ID \in DOMAIN idToMeta /\ idToMeta[m.ID].Name = "timestamp"

RECURSIVE FindTimestamp(_, _, _)
\* first pass: the loop ends at the first timestamp measurement
FindTimestamp(measurements, idToMeta, i) ==
    IF i > Len(measurements) THEN ZeroTime
    ELSE IF IsTimestamp(measurements[i], idToMeta) THEN TimestampOf(measurements[i].Value)
    ELSE FindTimestamp(measurements, idToMeta, i + 1)

\* the maps the loop over schema.Measurements can build: Go ranges over a map in
\* an unspecified order, so of two entries with one ID either may stay
IdToMetas(s) ==
    LET ids == {s[k].ID : k \in DOMAIN s}
        metas == {s[k] : k \in DOMAIN s}
    IN {m \in [ids -> metas] : \A id \in ids : m[id].ID = id}

\* a second pass without the test of the schema entry's name
SkippedKeepsTimestamp(m, idToMeta) ==
    \/ m.ID \notin DOMAIN idToMeta
    \/ m.Value = NilValue
    \/ toFloat64(m.Value).err

\* second pass: the measurements that reach no Save call
Skipped(m, idToMeta) ==
    \/ m.ID \notin DOMAIN idToMeta
    \/ idToMeta[m.ID].Name = "timestamp"
    \/ m.Value = NilValue
    \/ toFloat64(m.Value).err

TelemetryData(timestamp, meta, floatVal, now) ==
    [Timestamp |-> timestamp, Type |-> meta.Name, Value |-> floatVal,
     Unit |-> meta.Unit, CreatedAt |-> now]

RECURSIVE SavePassStopsAtUnknown(_, _, _, _, _, _)
\* a second pass that ends at the first measurement whose id the schema lacks
SavePassStopsAtUnknown(measurements, idToMeta, i, timestamp, now, readings) ==
    IF i > Len(measurements) THEN readings
    ELSE IF measurements[i].ID \notin DOMAIN idToMeta THEN readings
    ELSE IF Skipped(measurements[i], idToMeta)
    THEN SavePassStopsAtUnknown(measurements, idToMeta, i + 1, timestamp, now, readings)
    ELSE SavePassStopsAtUnknown(measurements, idToMeta, i + 1, timestamp, now,
                  Append(readings,
                         TelemetryData(timestamp, idToMeta[measurements[i].ID],
                                       toFloat64(measurements[i].Value).val, now)))

RECURSIVE SavePass(_, _, _, _, _, _)
\* second pass: the readings handed to telemetryStore.Save, in order
SavePass(measurements, idToMeta, i, timestamp, now, readings) ==
    IF i > Len(measurements) THEN readings
    ELSE IF Skipped(measurements[i], idToMeta)
    THEN SavePass(measurements, idToMeta, i + 1, timestamp, now, readings)
    ELSE SavePass(measurements, idToMeta, i + 1, timestamp, now,
                  Append(readings,
                         TelemetryData(timestamp, idToMeta[measurements[i].ID],
                                       toFloat64(measurements[i].Value).val, now)))

\* the two passes over the decoded measurements: the effective timestamp and
\* the readings handed to Save
Passes(measurements, idToMeta, now) ==
    LET found == FindTimestamp(measurements, idToMeta, 1)
        timestamp == IF IsZero(found) THEN now ELSE found
    IN [timestamp |-> timestamp,
        readings |-> SavePass(measurements, idToMeta, 1, timestamp, now, <<>>)]

\* the outcome of decodeMeasurementBatch gave no measurements to pass over
NoPasses == [timestamp |-> ZeroTime, readings |-> <<>>]

\* the Save calls with their outcome: those whose ordinal is in failing return
\* an error
SaveCalls(readings, failing) ==
    [i \in DOMAIN readings |-> [data |-> readings[i], ok |-> i \notin failing]]

AttemptedCount(calls) == Len(calls)

\* savedCount
SavedCount(calls) == Cardinality({i \in DOMAIN calls : calls[i].ok})

\* what one request leaves behind
Served(status, error, measurements, calls, seen, events) ==
    [resp |-> [status |-> status, error |-> error, measurements |-> measurements],
     saves |-> calls, lastSeen |-> seen, published |-> events]

\* h.jsonError(w, msg, code); return
jsonError(msg, code) == Served(code, msg, 0, <<>>, FALSE, <<>>)

\* the Recovery middleware answers a panic of the handler
Recovery == Served(500, "internal server error", 0, <<>>, FALSE, <<>>)

\* the handler from the decoded batch on: passes holds the outcome of its two
\* passes but for the outcome of the Save calls
ProcessMeasurements(passes, failing, lastSeenOk, publishOk) ==
    LET calls == SaveCalls(passes.readings, failing)
    IN Served(200, "", SavedCount(calls), calls, lastSeenOk,
              IF publishOk
              THEN <<[count |-> SavedCount(calls), timestamp |-> passes.timestamp]>>
              ELSE <<>>)

\* the handler: fault names the step before decoding that fails, if any,
\* decoded is the outcome of decodeMeasurementBatch(body) and passes that of
\* the two passes over its measurements
ServeTelemetryProto(fault, decoded, passes, failing, lastSeenOk, publishOk) ==
    CASE fault = "unauthorized" -> jsonError("unauthorized", 401)
      [] fault = "device" -> jsonError("device not found", 404)
      [] fault = "schema" -> jsonError("schema not found for device app/version", 404)
      [] fault = "body" -> jsonError("failed to read request body", 400)
      [] OTHER ->
           IF decoded.status = "panic" THEN Recovery
           ELSE IF decoded.status = "error"
           THEN jsonError("failed to decode protobuf", 400)
           ELSE ProcessMeasurements(passes, failing, lastSeenOk, publishOk)

(***************************************************************************)
(* The TTL cache                                                           *)
(***************************************************************************)

\* make(map[K]*entry[V])
EmptyCache == <<>>

\* &entry[V]{value: value, expiresAt: time.Now().Add(c.ttl)}
Entry(value, t, d) == [value |-> value, expiresAt |-> t + d]

\* c.cache[key] = e
Put(c, key, e) == [k \in DOMAIN c \cup {key} |-> IF k = key THEN e ELSE c[k]]

\* delete(c.cache, key)
Delete(c, key) == [k \in DOMAIN c \ {key} |-> c[k]]

\* an entry that still counts at its expiry
FreshAtExpiry(c, key, t) == key \in DOMAIN c /\ t <= c[key].expiresAt

\* e, ok := c.cache[key]; ok && time.Now().Before(e.expiresAt)
Fresh(c, key, t) == key \in DOMAIN c /\ t < c[key].expiresAt

\* what Get returns, with the cache it leaves and the number of loader calls
GetResult(value, err, c, loads) == [value |-> value, err |-> err, cache |-> c, loads |-> loads]

\* the zero value of V
ZeroValue == <<>>

\* a Get that takes an expired entry away when the loader fails
TTLGetDropsOnError(c, key, t, later, loaded, d) ==
    IF Fresh(c, key, t) THEN GetResult(c[key].value, FALSE, c, 0)
    ELSE IF loaded.err THEN GetResult(ZeroValue, TRUE, Delete(c, key), 1)
    ELSE GetResult(loaded.value, FALSE, Put(c, key, Entry(loaded.value, later, d)), 1)

\* TTL.Get: t is the clock at the lookup, later the clock when the loaded value
\* is stored, loaded what the loader returns if it is called
TTLGet(c, key, t, later, loaded, d) ==
    IF Fresh(c, key, t) THEN GetResult(c[key].value, FALSE, c, 0)
    ELSE IF loaded.err THEN GetResult(ZeroValue, TRUE, c, 1)
    ELSE GetResult(loaded.value, FALSE, Put(c, key, Entry(loaded.value, later, d)), 1)

\* TTL.Set
TTLSet(c, key, value, t, d) == Put(c, key, Entry(value, t, d))

\* TTL.Invalidate
TTLInvalidate(c, key) == Delete(c, key)

\* TTL.InvalidateAll
TTLInvalidateAll(c) == EmptyCache

(***************************************************************************)
(* The buffers the decoder is run on                                       *)
(***************************************************************************)

\* at most this many pieces are written into one buffer
MaxPieces == 2

\* at most this many bytes are cut off the end of a buffer
MaxCut == 1

\* at most this many bytes follow a varint handed to decodeVarint
MaxTrail == 1

Rep(b, n) == [i \in 1..n |-> b]

VarintField(num, v) == [NewField(BitsOf(num), WireVarint) EXCEPT !.Varint = v]
Fixed32Field(num, v) == [NewField(BitsOf(num), WireFixed32) EXCEPT !.Fixed32 = v]
Fixed64Field(num, v) == [NewField(BitsOf(num), WireFixed64) EXCEPT !.Fixed64 = v]
BytesField(num, b) == [NewField(BitsOf(num), WireBytes) EXCEPT !.Bytes = b]

\* an embedded message with the single field 1 = 100
InnerMessage == EncodeField(VarintField(1, BitsOf(100)))

\* the fields a sender encodes
FieldPieces ==
    { VarintField(1, BitsOf(150)),
      VarintField(2, Bits64),
      VarintField(16, {}),
      Fixed32Field(1, BitsOf(12345)),
      Fixed64Field(3, BitsOf(77) \cup {63}),
      BytesField(1, InnerMessage),
      BytesField(1, <<>>),
      BytesField(2, <<11>>) }

\* byte strings that are no field encodings
RawPieces ==
    { <<11>>, <<12>>, <<14>>, <<15>>,               \* field 1 with wire types 3, 4, 6, 7
      Rep(128, 11),                                 \* a tag that never ends
      <<8>> \o Rep(255, 10) \o <<1>>,               \* a varint payload of 11 bytes
      <<10>> \o Rep(128, 10) \o <<0>>,              \* a length of 11 bytes
      <<10>> \o encodeVarint(Bits64),               \* a length of 2^64-1
      <<10>> \o encodeVarint({63}),                 \* a length of 2^63
      <<10>> \o encodeVarint(0..62),                \* a length of 2^63-1
      <<10, 100, 115, 104, 111, 114, 116>>,         \* a length of 100 before 5 bytes
      encodeVarint({3, 35}) \o <<1>> }              \* the tag 2^35 + 8

FieldPiece(f) == [kind |-> "field", field |-> f, bytes |-> EncodeField(f)]
RawPiece(b) == [kind |-> "raw", field |-> NewField({}, 0), bytes |-> b]

\* every piece written is the encoding of a field
WellFormed(pieces) == \A i \in DOMAIN pieces : pieces[i].kind = "field"

\* the field numbers looked up
LookupNums == {BitsOf(1), BitsOf(2), BitsOf(99)}

\* the uint64 values handed to encodeVarint: 2^k, 2^k - 1, and two more
VarintSamples ==
    {{k} : k \in Bits64} \cup {0..(k - 1) : k \in 0..64} \cup {BitsOf(150), BitsOf(300)}

\* the Save calls of a request that fail: none, the first, the second or both
SaveFailures == SUBSET {1, 2}

RECURSIVE EncodeMessage(_)
\* the encoding of a message: the encodings of its fields, in order
EncodeMessage(fs) ==
    IF fs = <<>> THEN <<>> ELSE EncodeField(Head(fs)) \o EncodeMessage(Tail(fs))

\* the Measurement messages a device sends
TemperatureMsg == <<VarintField(1, BitsOf(1)), Fixed32Field(2, BitsOf(1102839808))>>
HumidityMsg == <<VarintField(1, BitsOf(2)), Fixed64Field(3, Shl64(BitsOf(263354), 44))>>
TimestampMsg == <<VarintField(1, BitsOf(3)), VarintField(7, Wide(791, 1340434432))>>
LaterTimestampMsg == <<VarintField(1, BitsOf(3)), VarintField(5, Wide(791, 1340494432))>>
UnknownIdMsg == <<VarintField(1, BitsOf(9)), VarintField(4, BitsOf(5))>>
NoValueMsg == <<VarintField(1, BitsOf(1))>>
TwoValuesMsg ==
    <<VarintField(1, BitsOf(2)), VarintField(4, Neg64(BitsOf(7))),
      Fixed32Field(2, BitsOf(1102839808))>>
ValueFirstMsg == <<VarintField(8, BitsOf(1)), VarintField(1, BitsOf(1))>>

\* a value and no id
NoIdMsg == <<Fixed32Field(2, BitsOf(1102839808))>>

ExtraFieldMsg ==
    <<VarintField(1, BitsOf(1)), VarintField(9, BitsOf(5)), VarintField(6, BitsOf(42))>>

\* timestamps sent as int32 (-7), as uint32 (2^31 + 5), as float32, and as the
\* int64 count of milliseconds of January 1 of year 1
Int32TimestampMsg == <<VarintField(1, BitsOf(3)), VarintField(4, Neg64(BitsOf(7)))>>
Uint32TimestampMsg == <<VarintField(1, BitsOf(3)), VarintField(6, BitsOf(5) \cup {31})>>
FloatTimestampMsg == <<VarintField(1, BitsOf(3)), Fixed32Field(2, BitsOf(1102839808))>>
YearOneTimestampMsg ==
    <<VarintField(1, BitsOf(3)), VarintField(5, Neg64(Wide(28934, 304928768)))>>

\* readings sent as int64 (-(2^53 + 1)) and as uint64 (2^63 + 3072), neither of
\* which is a float64
Int64ReadingMsg == <<VarintField(1, BitsOf(1)), VarintField(5, Neg64(Wide(4194304, 1)))>>
Uint64ReadingMsg == <<VarintField(1, BitsOf(2)), VarintField(7, {10, 11, 63})>>

MeasurementMessages ==
    { TemperatureMsg, HumidityMsg, TimestampMsg, LaterTimestampMsg, UnknownIdMsg,
      NoValueMsg, TwoValuesMsg, ValueFirstMsg, ExtraFieldMsg, Int32TimestampMsg,
      Uint32TimestampMsg, FloatTimestampMsg, YearOneTimestampMsg, Int64ReadingMsg,
      Uint64ReadingMsg, NoIdMsg }

\* Measurement messages whose value field has another wire type than its
\* number declares: float as varint, int32 as fixed32, double as fixed32,
\* bool as fixed64, uint64 as bytes, and a float as varint before an int64
VarintFloatMsg == <<VarintField(1, BitsOf(1)), VarintField(2, BitsOf(1102839808))>>
Fixed32Int32Msg == <<VarintField(1, BitsOf(2)), Fixed32Field(4, BitsOf(7))>>
Fixed32DoubleMsg == <<VarintField(1, BitsOf(2)), Fixed32Field(3, BitsOf(1102839808))>>
Fixed64BoolMsg == <<VarintField(1, BitsOf(1)), Fixed64Field(8, {0})>>
BytesUint64Msg == <<VarintField(1, BitsOf(2)), BytesField(7, <<1>>)>>
MismatchThenValueMsg ==
    <<VarintField(1, BitsOf(1)), VarintField(2, BitsOf(5)), VarintField(5, BitsOf(9))>>

MismatchMessages ==
    { VarintFloatMsg, Fixed32Int32Msg, Fixed32DoubleMsg, Fixed64BoolMsg, BytesUint64Msg,
      MismatchThenValueMsg }

\* the messages handed to the oneof scan
OneofMessages == MismatchMessages \cup {TemperatureMsg, TimestampMsg, NoValueMsg}

\* the MeasurementBatch that holds these messages
Envelope(msgs) == EncodeMessage([i \in DOMAIN msgs |-> BytesField(1, EncodeMessage(msgs[i]))])

\* byte strings that are no message encodings
BadPayloads ==
    { <<8>>,                                        \* a varint field without payload
      <<11>>,                                       \* field 1 with wire type 3
      <<10, 5, 1>>,                                 \* a length of 5 before 1 byte
      <<10>> \o encodeVarint(0..62) }               \* a length of 2^63-1

\* the fields of the MeasurementBatch envelopes sent
BatchFields ==
    {BytesField(1, EncodeMessage(m)) : m \in MeasurementMessages}
        \cup {BytesField(1, b) : b \in BadPayloads}
        \cup {VarintField(1, BitsOf(150)), BytesField(2, <<11>>)}

\* byte strings that are no envelope fields
BatchRawPieces == { <<11>>, <<10, 100, 1>>, <<10>> \o encodeVarint(0..62) }

Meta(id, name, type, unit) == [ID |-> BitsOf(id), Name |-> name, Type |-> type, Unit |-> unit]

\* a schema as uploaded: measurement key to metadata
DeviceSchema ==
    [k \in {"temperature", "humidity", "timestamp"} |->
        CASE k = "temperature" -> Meta(1, "temperature", "float", "celsius")
          [] k = "humidity" -> Meta(2, "humidity", "float", "percent")
          [] k = "timestamp" -> Meta(3, "timestamp", "uint64", "ms")]

\* a schema in which two entries carry the same id; UploadSchema accepts it
ClashSchema ==
    [k \in {"temperature", "humidity", "timestamp"} |->
        CASE k = "temperature" -> Meta(1, "temperature", "float", "celsius")
          [] k = "humidity" -> Meta(1, "humidity", "float", "percent")
          [] k = "timestamp" -> Meta(3, "timestamp", "uint64", "ms")]

Schemas == {DeviceSchema, ClashSchema}

\* the schema store has no schema for the app and version
NoSchema == <<>>

\* the readings of the server's clock
Nows == {UnixMilli(Wide(791, 1340434932))}

\* a later reading of the clock
LaterNow == UnixMilli(Wide(791, 1340439999))

\* the steps of the handler before decoding that can fail
Faults == {"none", "unauthorized", "device", "schema", "body"}

NoResponse == [status |-> 0, error |-> "", measurements |-> 0]

NoAnswer == [op |-> "", device |-> <<>>, status |-> 0, late |-> FALSE, read |-> FALSE]

\* no limiter was made, no device is registered and no request has arrived
IdleAccess ==
    /\ requests = <<>>
    /\ limiter = [window |-> 0, limit |-> 0]
    /\ allowed = <<>>
    /\ devices = <<>>
    /\ admins = <<>>
    /\ issued = {}
    /\ answer = NoAnswer
    /\ revocations = {}
    /\ arrivals = 0

\* no request was handled yet
Idle ==
    /\ saves = <<>>
    /\ resp = NoResponse
    /\ lastSeen = FALSE
    /\ published = <<>>
    /\ clock \in Nows
    /\ runs = <<>>
    /\ cache = EmptyCache
    /\ time = 0
    /\ ttl = 0
    /\ loadCount = 0
    /\ schemaStore = NoSchema
    /\ inflight = <<>>
    /\ uploader = "idle"
    /\ IdleAccess

\* the signed 64-bit values zig-zag encoded: the samples above read as signed,
\* and their bitwise complements (-1, -2, -2^k, -2^k - 1)
ZigZagSamples == VarintSamples \cup {Bits64 \ s : s \in VarintSamples}

NoReturn == [status |-> "none", msg |-> <<>>, err |-> "", pos |-> 0]
NoCall == [op |-> "none"]

(***************************************************************************)
(* The sender                                                              *)
(***************************************************************************)

\* a well-formed field encoding is written to the buffer
WriteField(f) ==
    /\ pc = "build"
    /\ cut = 0
    /\ Len(sent) < MaxPieces
    /\ data' = data \o EncodeField(f)
    /\ sent' = Append(sent, FieldPiece(f))
    /\ UNCHANGED <<cut, pc, pos, fields, iterStart, ret, val, call>>
    /\ UNCHANGED serverVars

\* arbitrary bytes are written to the buffer
WriteRaw(b) ==
    /\ pc = "build"
    /\ cut = 0
    /\ Len(sent) < MaxPieces
    /\ data' = data \o b
    /\ sent' = Append(sent, RawPiece(b))
    /\ UNCHANGED <<cut, pc, pos, fields, iterStart, ret, val, call>>
    /\ UNCHANGED serverVars

\* a buffer of well-formed field encodings arrives cut short
Truncate ==
    /\ pc = "build"
    /\ cut < MaxCut
    /\ WellFormed(sent)
    /\ Len(data) > 0
    /\ data' = SubSeq(data, 1, Len(data) - 1)
    /\ cut' = cut + 1
    /\ UNCHANGED <<sent, pc, pos, fields, iterStart, ret, val, call>>
    /\ UNCHANGED serverVars

(***************************************************************************)
(* Decode, one loop iteration at a time                                    *)
(***************************************************************************)

DecodeStep ==
    /\ pc \in {"build", "decode"}
    /\ LoopContinues(data, pos)
    /\ LET r == DecodeIter(data, pos)
       IN IF r.status = "ok"
          THEN /\ fields' = AppendField(fields, r.field)
               /\ pos' = r.pos
               /\ pc' = "decode"
               /\ UNCHANGED ret
          ELSE /\ ret' = ReturnError(r, fields)
               /\ pos' = r.pos
               /\ pc' = "returned"
               /\ UNCHANGED fields
    /\ iterStart' = pos
    /\ UNCHANGED <<data, sent, cut, val, call>>
    /\ UNCHANGED serverVars

DecodeReturn ==
    /\ pc \in {"build", "decode"}
    /\ ~LoopContinues(data, pos)
    /\ ret' = ReturnFields(fields, pos)
    /\ pc' = "returned"
    /\ UNCHANGED <<data, sent, cut, pos, fields, iterStart, val, call>>
    /\ UNCHANGED serverVars

(***************************************************************************)
(* Calls on the decoded message and on the buffer                          *)
(***************************************************************************)

GetFieldCall(n) ==
    /\ pc = "returned"
    /\ ret.status = "ok"
    /\ call' = [op |-> "GetField", arg |-> n, out |-> GetField(ret.msg, n)]
    /\ pc' = "called"
    /\ UNCHANGED <<data, sent, cut, pos, fields, iterStart, ret, val>>
    /\ UNCHANGED serverVars

GetAllFieldsCall(n) ==
    /\ pc = "returned"
    /\ ret.status = "ok"
    /\ call' = [op |-> "GetAllFields", arg |-> n, out |-> GetAllFields(ret.msg, n)]
    /\ pc' = "called"
    /\ UNCHANGED <<data, sent, cut, pos, fields, iterStart, ret, val>>
    /\ UNCHANGED serverVars

DecodeRepeatedCall(n) ==
    /\ pc = "build"
    /\ call' = [op |-> "DecodeRepeated", arg |-> n, out |-> DecodeRepeated(data, n)]
    /\ pc' = "called"
    /\ UNCHANGED <<data, sent, cut, pos, fields, iterStart, ret, val>>
    /\ UNCHANGED serverVars

Init ==
    /\ data = <<>>
    /\ sent = <<>>
    /\ cut = 0
    /\ pc = "build"
    /\ pos = 0
    /\ fields = <<>>
    /\ iterStart = -1
    /\ ret = NoReturn
    /\ val = {}
    /\ call = NoCall
    /\ schema = DeviceSchema
    /\ Idle

Next ==
    \/ \E f \in FieldPieces : WriteField(f)
    \/ \E b \in RawPieces : WriteRaw(b)
    \/ Truncate
    \/ DecodeStep
    \/ DecodeReturn
    \/ \E n \in LookupNums : GetFieldCall(n)
    \/ \E n \in LookupNums : GetAllFieldsCall(n)
    \/ \E n \in LookupNums : DecodeRepeatedCall(n)

Spec == Init /\ [][Next]_vars

(***************************************************************************)
(* encodeVarint followed by decodeVarint                                   *)
(***************************************************************************)

EncodeVarintCall ==
    /\ pc = "varint"
    /\ data' = encodeVarint(val)
    /\ sent' = <<RawPiece(encodeVarint(val))>>
    /\ pc' = "encoded"
    /\ UNCHANGED <<cut, pos, fields, iterStart, ret, val, call>>
    /\ UNCHANGED serverVars

\* more bytes of the buffer follow the varint
FollowedBy(b) ==
    /\ pc = "encoded"
    /\ Len(data) < Len(sent[1].bytes) + MaxTrail
    /\ data' = Append(data, b)
    /\ UNCHANGED <<sent, cut, pc, pos, fields, iterStart, ret, val, call>>
    /\ UNCHANGED serverVars

DecodeVarintCall ==
    /\ pc = "encoded"
    /\ call' = [op |-> "decodeVarint", out |-> decodeVarint(data)]
    /\ pc' = "called"
    /\ UNCHANGED <<data, sent, cut, pos, fields, iterStart, ret, val>>
    /\ UNCHANGED serverVars

InitVarint ==
    /\ data = <<>>
    /\ sent = <<>>
    /\ cut = 0
    /\ pc = "varint"
    /\ pos = 0
    /\ fields = <<>>
    /\ iterStart = -1
    /\ ret = NoReturn
    /\ val \in VarintSamples
    /\ call = NoCall
    /\ schema = DeviceSchema
    /\ Idle

NextVarint ==
    \/ EncodeVarintCall
    \/ \E b \in {0, 1, 128, 255} : FollowedBy(b)
    \/ DecodeVarintCall

SpecVarint == InitVarint /\ [][NextVarint]_vars

(***************************************************************************)
(* A measurement batch posted to the telemetry service                     *)
(***************************************************************************)

DecodeMeasurementBatchCall ==
    /\ pc = "build"
    /\ call' = [op |-> "decodeMeasurementBatch", out |-> decodeMeasurementBatch(data)]
    /\ pc' = "called"
    /\ UNCHANGED <<data, sent, cut, pos, fields, iterStart, ret, val>>
    /\ UNCHANGED serverVars

\* the outcomes of the stores that matter: none if the request fails before
\* it reaches them
StoreOutcomes(fault, outcomes) ==
    IF fault = "none" THEN outcomes ELSE {CHOOSE o \in outcomes : TRUE}

\* what is kept of a request handled: its body, the clock, the response status
\* and the readings handed to Save
Run(body, now, out) ==
    [body |-> body, now |-> now, status |-> out.resp.status,
     readings |-> [i \in DOMAIN out.saves |-> out.saves[i].data]]

\* POST /telemetry/proto with the buffer as body, behind the Recovery middleware.
\* The steps before decoding may fail, the clock reads now, the Save calls whose
\* ordinal is in failing fail, and so may UpdateLastSeen and Publish.
HandleTelemetryProto ==
    /\ pc = "build"
    /\ \E decoded \in {decodeMeasurementBatch(data)}, fault \in Faults, now \in {clock},
          idToMeta \in IdToMetas(schema) :
          \E passes \in {IF fault = "none" /\ decoded.status = "ok"
                         THEN Passes(decoded.measurements, idToMeta, now)
                         ELSE NoPasses},
             failing \in StoreOutcomes(fault, SaveFailures),
             lastSeenOk \in StoreOutcomes(fault, BOOLEAN),
             publishOk \in StoreOutcomes(fault, BOOLEAN) :
             \E out \in {ServeTelemetryProto(fault, decoded, passes, failing,
                                             lastSeenOk, publishOk)} :
                /\ resp' = out.resp
                /\ saves' = out.saves
                /\ lastSeen' = out.lastSeen
                /\ published' = out.published
                /\ call' = [op |-> "HandleTelemetryProto", fault |-> fault, now |-> now,
                            idToMeta |-> idToMeta]
                /\ runs' = Append(runs, Run(data, now, out))
    /\ pc' = "handled"
    /\ UNCHANGED <<data, sent, cut, pos, fields, iterStart, ret, val, schema, clock>>
    /\ UNCHANGED <<cacheVars, concVars, accessVars>>

InitBatch ==
    /\ data = <<>>
    /\ sent = <<>>
    /\ cut = 0
    /\ pc = "build"
    /\ pos = 0
    /\ fields = <<>>
    /\ iterStart = -1
    /\ ret = NoReturn
    /\ val = {}
    /\ call = NoCall
    /\ schema \in Schemas
    /\ Idle

NextBatch ==
    \/ \E f \in BatchFields : WriteField(f)
    \/ \E b \in BatchRawPieces : WriteRaw(b)
    \/ DecodeRepeatedCall(measurementFieldID)
    \/ DecodeMeasurementBatchCall
    \/ HandleTelemetryProto

SpecBatch == InitBatch /\ [][NextBatch]_vars

(***************************************************************************)
(* The TTL cache with a loader that counts its calls                       *)
(***************************************************************************)

\* the clock of the cache runs up to this reading
MaxTime == 4

\* the longest duration given to NewTTL
MaxTTL == 2

\* at most this many calls of the loader
MaxLoads == 3

CacheKeys == {"hello", "key"}

\* the value handed to Set
SetValue == <<"set">>

\* the loader of the tests: the n-th call returns a value that tells it from
\* the others, or fails
Loader(key, n, ok) ==
    IF ok THEN [value |-> <<key, n>>, err |-> FALSE] ELSE [value |-> ZeroValue, err |-> TRUE]

\* the readings of the clock when a loaded value is stored: the loader takes time
Laters(t) == {t, t + 1} \cap 0..MaxTime

\* cache.Get(key)
Get(key) ==
    /\ pc = "cache"
    /\ loadCount < MaxLoads
    /\ \E later \in Laters(time), ok \in BOOLEAN :
          \E r \in {TTLGet(cache, key, time, later, Loader(key, loadCount + 1, ok), ttl)} :
             /\ cache' = r.cache
             /\ loadCount' = loadCount + r.loads
             /\ time' = IF r.loads = 0 THEN time ELSE later
             /\ call' = [op |-> "Get", key |-> key, prev |-> call.op, before |-> cache,
                         at |-> time, loaded |-> Loader(key, loadCount + 1, ok),
                         out |-> [value |-> r.value, err |-> r.err], loads |-> r.loads]
    /\ UNCHANGED <<data, sent, cut, pc, pos, fields, iterStart, ret, val, ttl>>
    /\ UNCHANGED <<schema, saves, resp, lastSeen, published, clock, runs, concVars, accessVars>>

\* cache.Set(key, value)
Set(key) ==
    /\ pc = "cache"
    /\ cache' = TTLSet(cache, key, SetValue, time, ttl)
    /\ call' = [op |-> "Set", key |-> key, prev |-> call.op]
    /\ UNCHANGED <<data, sent, cut, pc, pos, fields, iterStart, ret, val>>
    /\ UNCHANGED <<schema, saves, resp, lastSeen, published, clock, runs, concVars, accessVars>>
    /\ UNCHANGED <<time, ttl, loadCount>>

\* cache.Invalidate(key)
Invalidate(key) ==
    /\ pc = "cache"
    /\ cache' = TTLInvalidate(cache, key)
    /\ call' = [op |-> "Invalidate", key |-> key, prev |-> call.op]
    /\ UNCHANGED <<data, sent, cut, pc, pos, fields, iterStart, ret, val>>
    /\ UNCHANGED <<schema, saves, resp, lastSeen, published, clock, runs, concVars, accessVars>>
    /\ UNCHANGED <<time, ttl, loadCount>>

\* cache.InvalidateAll()
InvalidateAll ==
    /\ pc = "cache"
    /\ cache' = TTLInvalidateAll(cache)
    /\ call' = [op |-> "InvalidateAll", prev |-> call.op]
    /\ UNCHANGED <<data, sent, cut, pc, pos, fields, iterStart, ret, val>>
    /\ UNCHANGED <<schema, saves, resp, lastSeen, published, clock, runs, concVars, accessVars>>
    /\ UNCHANGED <<time, ttl, loadCount>>

\* time.Sleep between two calls
Sleep ==
    /\ pc = "cache"
    /\ time < MaxTime
    /\ time' = time + 1
    /\ call' = [op |-> "Sleep", prev |-> call.op]
    /\ UNCHANGED <<data, sent, cut, pc, pos, fields, iterStart, ret, val>>
    /\ UNCHANGED <<schema, saves, resp, lastSeen, published, clock, runs, concVars, accessVars>>
    /\ UNCHANGED <<cache, ttl, loadCount>>

\* NewTTL(loader, ttl)
InitCache ==
    /\ data = <<>>
    /\ sent = <<>>
    /\ cut = 0
    /\ pc = "cache"
    /\ pos = 0
    /\ fields = <<>>
    /\ iterStart = -1
    /\ ret = NoReturn
    /\ val = {}
    /\ call = NoCall
    /\ schema = DeviceSchema
    /\ saves = <<>>
    /\ resp = NoResponse
    /\ lastSeen = FALSE
    /\ published = <<>>
    /\ clock \in Nows
    /\ runs = <<>>
    /\ cache = EmptyCache
    /\ time = 0
    /\ ttl \in 0..MaxTTL
    /\ loadCount = 0
    /\ schemaStore = NoSchema
    /\ inflight = <<>>
    /\ uploader = "idle"
    /\ IdleAccess

NextCache ==
    \/ \E key \in CacheKeys : Get(key)
    \/ \E key \in CacheKeys : Set(key)
    \/ \E key \in CacheKeys : Invalidate(key)
    \/ InvalidateAll
    \/ Sleep

SpecCache == InitCache /\ [][NextCache]_vars

(***************************************************************************)
(* Requests served concurrently with a schema upload                       *)
(*                                                                         *)
(* Every request runs in its own goroutine. A step of a request is one     *)
(* access to what the goroutines share, the cache under its lock and the   *)
(* schema store, or a stretch of the handler on its locals.                *)
(***************************************************************************)

\* the goroutines serving POST /telemetry/proto
Handlers == {1, 2}

\* the schema in use, and the one uploaded for the same app and version: id 3
\* is no timestamp any more, id 1 has another name
OldSchema ==
    [k \in {"temperature", "timestamp"} |->
        CASE k = "temperature" -> Meta(1, "temperature", "float", "celsius")
          [] k = "timestamp" -> Meta(3, "timestamp", "uint64", "ms")]

NewSchema ==
    [k \in {"pressure", "uptime"} |->
        CASE k = "pressure" -> Meta(1, "pressure", "float", "pascal")
          [] k = "uptime" -> Meta(3, "uptime", "uint64", "ms")]

\* the bodies posted
ConcBodies ==
    { Envelope(<<TimestampMsg, TemperatureMsg>>),
      Envelope(<<Int64ReadingMsg, LaterTimestampMsg>>) }

\* schemaKey{appName, version}
SchemaKey == "app:1.0.0"

\* the locals of a request that has not looked up the schema yet; uploads
\* keeps the position of the upload at each of its passes, started the position
\* of the upload when the request called SchemaCache.Get
Arrived(body) ==
    [pc |-> "lookup", body |-> body, schema |-> NoSchema, idToMeta |-> <<>>,
     measurements |-> <<>>, timestamp |-> ZeroTime, readings |-> <<>>, status |-> 0,
     uploads |-> <<>>, started |-> ""]

\* a request arrives
Arrive(h, body) ==
    /\ pc = "serve"
    /\ h \notin DOMAIN inflight
    /\ inflight' = Put(inflight, h, Arrived(body))
    /\ UNCHANGED <<data, sent, cut, pc, pos, fields, iterStart, ret, val, call>>
    /\ UNCHANGED <<schema, saves, resp, lastSeen, published, clock, runs, accessVars>>
    /\ UNCHANGED <<cacheVars, schemaStore, uploader>>

\* the request is at position p
At(h, p) == pc = "serve" /\ h \in DOMAIN inflight /\ inflight[h].pc = p

\* TTL.Get under the read lock: a fresh entry is returned, else the loader is next
LookupSchema(h) ==
    /\ At(h, "lookup")
    /\ inflight' =
          [inflight EXCEPT ![h] =
              IF Fresh(cache, SchemaKey, time)
              THEN [@ EXCEPT !.pc = "read", !.schema = cache[SchemaKey].value,
                             !.started = uploader]
              ELSE [@ EXCEPT !.pc = "load", !.started = uploader]]
    /\ UNCHANGED <<data, sent, cut, pc, pos, fields, iterStart, ret, val, call>>
    /\ UNCHANGED <<schema, saves, resp, lastSeen, published, clock, runs, accessVars>>
    /\ UNCHANGED <<cacheVars, schemaStore, uploader>>

\* TTL.Get outside the locks: the loader reads the schema store; without a
\* schema the handler answers 404
LoadSchema(h) ==
    /\ At(h, "load")
    /\ loadCount < MaxLoads
    /\ loadCount' = loadCount + 1
    /\ inflight' =
          [inflight EXCEPT ![h] =
              IF schemaStore = NoSchema
              THEN [@ EXCEPT !.pc = "done", !.status = 404]
              ELSE [@ EXCEPT !.pc = "fill", !.schema = schemaStore]]
    /\ UNCHANGED <<data, sent, cut, pc, pos, fields, iterStart, ret, val, call>>
    /\ UNCHANGED <<schema, saves, resp, lastSeen, published, clock, runs, accessVars>>
    /\ UNCHANGED <<cache, time, ttl, schemaStore, uploader>>

\* TTL.Get under the write lock: the loaded schema is stored
FillCache(h) ==
    /\ At(h, "fill")
    /\ cache' = Put(cache, SchemaKey, Entry(inflight[h].schema, time, ttl))
    /\ inflight' = [inflight EXCEPT ![h].pc = "read"]
    /\ UNCHANGED <<data, sent, cut, pc, pos, fields, iterStart, ret, val, call>>
    /\ UNCHANGED <<schema, saves, resp, lastSeen, published, clock, runs, accessVars>>
    /\ UNCHANGED <<time, ttl, loadCount, schemaStore, uploader>>

\* the body is read and decoded and idToMeta is built from the schema held
ReadAndIndex(h) ==
    /\ At(h, "read")
    /\ \E decoded \in {decodeMeasurementBatch(inflight[h].body)},
          idToMeta \in IdToMetas(inflight[h].schema) :
          inflight' =
             [inflight EXCEPT ![h] =
                 IF decoded.status # "ok"
                 THEN [@ EXCEPT !.pc = "done",
                                !.status = IF decoded.status = "panic" THEN 500 ELSE 400]
                 ELSE [@ EXCEPT !.pc = "first", !.idToMeta = idToMeta,
                                !.measurements = decoded.measurements]]
    /\ UNCHANGED <<data, sent, cut, pc, pos, fields, iterStart, ret, val, call>>
    /\ UNCHANGED <<schema, saves, resp, lastSeen, published, clock, runs, accessVars>>
    /\ UNCHANGED <<cacheVars, schemaStore, uploader>>

\* an emission pass that resolves ids against the schema the cache holds when
\* the pass runs
ResolvingMapFromCache(h) ==
    IF SchemaKey \in DOMAIN cache
    THEN CHOOSE m \in IdToMetas(cache[SchemaKey].value) : TRUE
    ELSE inflight[h].idToMeta

\* the map the passes resolve ids against
ResolvingMap(h) == inflight[h].idToMeta

\* first pass: the timestamp
FirstPass(h) ==
    /\ At(h, "first")
    /\ \E found \in {FindTimestamp(inflight[h].measurements, inflight[h].idToMeta, 1)} :
          inflight' = [inflight EXCEPT ![h].pc = "second",
                                       ![h].timestamp = IF IsZero(found) THEN clock ELSE found,
                                       ![h].uploads = Append(@, uploader)]
    /\ UNCHANGED <<data, sent, cut, pc, pos, fields, iterStart, ret, val, call>>
    /\ UNCHANGED <<schema, saves, resp, lastSeen, published, clock, runs, accessVars>>
    /\ UNCHANGED <<cacheVars, schemaStore, uploader>>

\* second pass: the readings handed to Save, and the response
SecondPass(h) ==
    /\ At(h, "second")
    /\ \E readings \in {SavePass(inflight[h].measurements, ResolvingMap(h), 1,
                                  inflight[h].timestamp, clock, <<>>)} :
          inflight' = [inflight EXCEPT ![h].pc = "done", ![h].readings = readings,
                                       ![h].status = 200,
                                       ![h].uploads = Append(@, uploader)]
    /\ UNCHANGED <<data, sent, cut, pc, pos, fields, iterStart, ret, val, call>>
    /\ UNCHANGED <<schema, saves, resp, lastSeen, published, clock, runs, accessVars>>
    /\ UNCHANGED <<cacheVars, schemaStore, uploader>>

\* SchemaCache.Save: c.store.Save, and the return of its error
StoreSave ==
    /\ pc = "serve"
    /\ uploader = "idle"
    /\ \E saved \in BOOLEAN :
          IF saved
          THEN schemaStore' = NewSchema /\ uploader' = "stored"
          ELSE schemaStore' = schemaStore /\ uploader' = "failed"
    /\ UNCHANGED <<data, sent, cut, pc, pos, fields, iterStart, ret, val, call>>
    /\ UNCHANGED <<schema, saves, resp, lastSeen, published, clock, runs, accessVars>>
    /\ UNCHANGED <<cacheVars, inflight>>

\* SchemaCache.Save: c.cache.Set
CacheSet ==
    /\ pc = "serve"
    /\ uploader = "stored"
    /\ cache' = TTLSet(cache, SchemaKey, NewSchema, time, ttl)
    /\ uploader' = "done"
    /\ UNCHANGED <<data, sent, cut, pc, pos, fields, iterStart, ret, val, call>>
    /\ UNCHANGED <<schema, saves, resp, lastSeen, published, clock, runs, accessVars>>
    /\ UNCHANGED <<time, ttl, loadCount, schemaStore, inflight>>

\* the old schema is stored, and cached or not; with a ttl of 0 every entry of
\* the cache is expired when it is looked up
InitConcurrent ==
    /\ data = <<>>
    /\ sent = <<>>
    /\ cut = 0
    /\ pc = "serve"
    /\ pos = 0
    /\ fields = <<>>
    /\ iterStart = -1
    /\ ret = NoReturn
    /\ val = {}
    /\ call = NoCall
    /\ schema = OldSchema
    /\ saves = <<>>
    /\ resp = NoResponse
    /\ lastSeen = FALSE
    /\ published = <<>>
    /\ clock \in Nows
    /\ runs = <<>>
    /\ ttl \in {0, MaxTTL}
    /\ cache \in {EmptyCache, Put(EmptyCache, SchemaKey, Entry(OldSchema, 0, ttl))}
    /\ time = 0
    /\ loadCount = 0
    /\ schemaStore = OldSchema
    /\ inflight = <<>>
    /\ uploader = "idle"
    /\ IdleAccess

NextConcurrent ==
    \/ \E h \in Handlers, body \in ConcBodies : Arrive(h, body)
    \/ \E h \in Handlers : LookupSchema(h)
    \/ \E h \in Handlers : LoadSchema(h)
    \/ \E h \in Handlers : FillCache(h)
    \/ \E h \in Handlers : ReadAndIndex(h)
    \/ \E h \in Handlers : FirstPass(h)
    \/ \E h \in Handlers : SecondPass(h)
    \/ StoreSave
    \/ CacheSet

SpecConcurrent == InitConcurrent /\ [][NextConcurrent]_vars

(***************************************************************************)
(* Several requests in a row                                               *)
(***************************************************************************)

\* at most this many requests are handled
MaxRuns == 3

\* the bodies posted
RunBodies ==
    { Envelope(<<TemperatureMsg, TimestampMsg>>),
      Envelope(<<HumidityMsg, Int64ReadingMsg>>) }

\* a request arrives: its body is read into the buffer
ReceiveBody(body) ==
    /\ pc \in {"idle", "handled"}
    /\ Len(runs) < MaxRuns
    /\ data' = body
    /\ pc' = "build"
    /\ UNCHANGED <<sent, cut, pos, fields, iterStart, ret, val, call>>
    /\ UNCHANGED serverVars

\* time passes between two requests
Tick ==
    /\ pc \in {"idle", "handled"}
    /\ clock \in Nows
    /\ clock' = LaterNow
    /\ UNCHANGED <<data, sent, cut, pc, pos, fields, iterStart, ret, val, call>>
    /\ UNCHANGED <<schema, saves, resp, lastSeen, published, runs, accessVars>>
    /\ UNCHANGED <<cacheVars, concVars>>

InitRuns ==
    /\ data = <<>>
    /\ sent = <<>>
    /\ cut = 0
    /\ pc = "idle"
    /\ pos = 0
    /\ fields = <<>>
    /\ iterStart = -1
    /\ ret = NoReturn
    /\ val = {}
    /\ call = NoCall
    /\ schema \in Schemas
    /\ Idle

NextRuns ==
    \/ \E body \in RunBodies : ReceiveBody(body)
    \/ Tick
    \/ HandleTelemetryProto

SpecRuns == InitRuns /\ [][NextRuns]_vars

(***************************************************************************)
(* Zig-zag encoded integers read back with AsSint32 and AsSint64           *)
(***************************************************************************)

\* the low 32 bits of val are sent as a sint32 and read back
AsSint32Call ==
    /\ pc = "zigzag"
    /\ \E enc \in {EncodeZigZag32(val \cap Bits32)} :
          call' = [op |-> "AsSint32", n |-> val \cap Bits32, enc |-> enc,
                   out |-> AsSint32(VarintField(1, enc))]
    /\ pc' = "called"
    /\ UNCHANGED <<data, sent, cut, pos, fields, iterStart, ret, val>>
    /\ UNCHANGED serverVars

\* val is sent as a sint64 and read back
AsSint64Call ==
    /\ pc = "zigzag"
    /\ \E enc \in {EncodeZigZag64(val)} :
          call' = [op |-> "AsSint64", n |-> val, enc |-> enc,
                   out |-> AsSint64(VarintField(1, enc))]
    /\ pc' = "called"
    /\ UNCHANGED <<data, sent, cut, pos, fields, iterStart, ret, val>>
    /\ UNCHANGED serverVars

InitZigZag ==
    /\ data = <<>>
    /\ sent = <<>>
    /\ cut = 0
    /\ pc = "zigzag"
    /\ pos = 0
    /\ fields = <<>>
    /\ iterStart = -1
    /\ ret = NoReturn
    /\ val \in ZigZagSamples
    /\ call = NoCall
    /\ schema = DeviceSchema
    /\ Idle

NextZigZag ==
    \/ AsSint32Call
    \/ AsSint64Call

SpecZigZag == InitZigZag /\ [][NextZigZag]_vars

(***************************************************************************)
(* Sliding window rate limiter (pkg/middleware/security.go).  Allow and    *)
(* the background cleanup each run under rl.mu from their first statement  *)
(* to their last, time.Now() included, so each is one step, and concurrent *)
(* callers are the orders in which the steps are taken.  Time is counted   *)
(* in ticks of the monotonic clock.                                        *)
(***************************************************************************)

MaxWindow == 2
MaxLimit == 2
MaxCalls == 4

LimiterKeys == {"test-key", "other-key"}

\* t.After(u)
After(t, u) == t > u

\* rl.requests[key]: nil for a key that is not in the map
Stored(rq, key) == IF key \in DOMAIN rq THEN rq[key] ELSE <<>>

\* the requests within the window: those after now.Add(-rl.window)
Valid(times, now, window) ==
    SelectSeq(times, LAMBDA t : After(t, now - window))

LimitReachedStrict(valid, limit) == Len(valid) > limit

\* if len(valid) >= rl.limit
LimitReached(valid, limit) == Len(valid) >= limit

DeniedStoresAttempt(valid, now) == Append(valid, now)

\* what a denied call stores for its key
DeniedStores(valid, now) == valid

\* Allow(key) at time now: the answer and rl.requests afterwards
LimiterAllow(rq, lim, key, now) ==
    LET valid == Valid(Stored(rq, key), now, lim.window)
    IN  IF LimitReached(valid, lim.limit)
        THEN [ok |-> FALSE, requests |-> Put(rq, key, DeniedStores(valid, now))]
        ELSE [ok |-> TRUE, requests |-> Put(rq, key, Append(valid, now))]

\* one tick of cleanup at time now: rl.requests afterwards
LimiterCleanup(rq, lim, now) ==
    LET kept == {key \in DOMAIN rq : Len(Valid(rq[key], now, lim.window)) # 0}
    IN  [key \in kept |-> Valid(rq[key], now, lim.window)]

Allow(key) ==
    /\ pc = "limit"
    /\ Len(allowed) < MaxCalls
    /\ \E out \in {LimiterAllow(requests, limiter, key, time)} :
          /\ requests' = out.requests
          /\ allowed' = Append(allowed, [key |-> key, at |-> time, ok |-> out.ok])
          /\ call' = [op |-> "Allow", key |-> key, at |-> time,
                      before |-> requests, ok |-> out.ok]
    /\ UNCHANGED <<data, sent, cut, pc, pos, fields, iterStart, ret, val>>
    /\ UNCHANGED <<schema, saves, resp, lastSeen, published, clock, runs, concVars>>
    /\ UNCHANGED <<cacheVars, limiter, authVars>>

cleanup ==
    /\ pc = "limit"
    /\ requests' = LimiterCleanup(requests, limiter, time)
    /\ call' = [op |-> "cleanup", at |-> time, before |-> requests]
    /\ UNCHANGED <<data, sent, cut, pc, pos, fields, iterStart, ret, val>>
    /\ UNCHANGED <<schema, saves, resp, lastSeen, published, clock, runs, concVars>>
    /\ UNCHANGED <<cacheVars, limiter, allowed, authVars>>

\* the clock advances by one tick
LimiterTick ==
    /\ pc = "limit"
    /\ time < MaxTime
    /\ time' = time + 1
    /\ UNCHANGED <<data, sent, cut, pc, pos, fields, iterStart, ret, val, call>>
    /\ UNCHANGED <<schema, saves, resp, lastSeen, published, clock, runs, concVars>>
    /\ UNCHANGED <<cache, ttl, loadCount, accessVars>>

\* NewRateLimiter(window, limit)
InitLimiter ==
    /\ data = <<>>
    /\ sent = <<>>
    /\ cut = 0
    /\ pc = "limit"
    /\ pos = 0
    /\ fields = <<>>
    /\ iterStart = -1
    /\ ret = NoReturn
    /\ val = {}
    /\ call = NoCall
    /\ schema = DeviceSchema
    /\ saves = <<>>
    /\ resp = NoResponse
    /\ lastSeen = FALSE
    /\ published = <<>>
    /\ clock \in Nows
    /\ runs = <<>>
    /\ cache = EmptyCache
    /\ time = 0
    /\ ttl = 0
    /\ loadCount = 0
    /\ schemaStore = NoSchema
    /\ inflight = <<>>
    /\ uploader = "idle"
    /\ requests = <<>>
    /\ limiter \in [window : 1..MaxWindow, limit : 0..MaxLimit]
    /\ allowed = <<>>
    /\ devices = <<>>
    /\ admins = <<>>
    /\ issued = {}
    /\ answer = NoAnswer
    /\ revocations = {}
    /\ arrivals = 0

NextLimiter ==
    \/ \E key \in LimiterKeys : Allow(key)
    \/ cleanup
    \/ LimiterTick

SpecLimiter == InitLimiter /\ [][NextLimiter]_vars

(***************************************************************************)
(* Device authentication and provisioning (handlers/auth_iam.go,           *)
(* handlers/devices.go) over the device store.  Each call of the store is  *)
(* one step; a handler that reads the store and acts on what it read later *)
(* takes two steps, and the steps of concurrent requests interleave.       *)
(* Strings are sequences of characters.                                    *)
(***************************************************************************)

MaxRequests == 3

\* a device id: a UUID, the empty string, or a string that is no UUID
DeviceID(n) == <<"device", n>>
NoID == <<>>
BadID == <<"?">>
UnknownID == DeviceID(0)

\* validate.UUID
IsUUID(s) == Len(s) = 2 /\ s[1] = "device"

\* a secret: the text of the device it was generated for and its length
Secret(id) == [of |-> id, len |-> 64]
WrongSecret == [of |-> NoID, len |-> 64]
ShortSecret == [of |-> NoID, len |-> 10]
EmptySecret == [of |-> NoID, len |-> 0]

\* HashDeviceSecret, and bcrypt.CompareHashAndPassword without its error
HashDeviceSecret(secret) == [hash |-> secret]
CompareHashAndPassword(hash, secret) == hash = HashDeviceSecret(secret)

Separators == {":", "-", "."}

HexDigits ==
    {"0", "1", "2", "3", "4", "5", "6", "7", "8", "9", "a", "b", "c", "d", "e", "f"}

\* strings.ToLower on one character
ToLower(c) ==
    CASE c = "A" -> "a" [] c = "B" -> "b" [] c = "C" -> "c"
      [] c = "D" -> "d" [] c = "E" -> "e" [] c = "F" -> "f"
      [] OTHER -> c

\* mac.Normalize
Normalize(mac) ==
    LET kept == SelectSeq(mac, LAMBDA c : c \notin Separators)
    IN  [i \in DOMAIN kept |-> ToLower(kept[i])]

\* mac.IsValid
IsValid(mac) ==
    LET n == Normalize(mac)
    IN  Len(n) = 12 /\ \A i \in DOMAIN n : n[i] \in HexDigits

ColonMac ==
    <<"A", "A", ":", "B", "B", ":", "C", "C", ":", "D", "D", ":", "E", "E", ":", "F", "F">>
PlainMac == <<"a", "a", "b", "b", "c", "c", "d", "d", "e", "e", "f", "f">>
OtherMac == <<"1", "1", "-", "2", "2", "-", "3", "3", "-", "4", "4", "-", "5", "5", "-", "6", "6">>
ShortMac == <<"A", "A", ":", "B", "B">>
MacInputs == {ColonMac, PlainMac, OtherMac, ShortMac, <<>>}

AppNames == {"", "sensor"}

AppVersions == {"", "1.0.0"}

\* a Device as ProvisionDevice builds it
Device(mac, app, secret) ==
    [mac |-> mac, app |-> app, secretHash |-> HashDeviceSecret(secret),
     revoked |-> FALSE]

\* deviceStore.GetByMAC: the devices found
ByMAC(store, mac) == {id \in DOMAIN store : store[id].mac = mac}

\* uuid.New(): an id no device has
NewUUID(store) == DeviceID(Cardinality(DOMAIN store) + 1)

\* a response; read tells that the handler had read the device from the store
Answer(op, device, status, late, read) ==
    [op |-> op, device |-> device, status |-> status, late |-> late, read |-> read]

\* the request arrives after RevokeDevice has succeeded for its device
Late(id) == id \in revocations

\* a request can arrive at handler h
Free(h) == pc = "auth" /\ h \notin DOMAIN admins /\ arrivals < MaxRequests

\* AuthDevice up to the lookup of the device: the status answered, 0 if none
AuthDeviceInvalid(id, secret) ==
    IF id = NoID THEN 400
    ELSE IF ~IsUUID(id) THEN 400
    ELSE IF secret.len = 0 THEN 400
    ELSE IF secret.len # 64 THEN 401
    ELSE 0

\* AuthDevice: validation and deviceStore.GetByID
AuthLookup(h, id, secret) ==
    /\ Free(h)
    /\ arrivals' = arrivals + 1
    /\ \E getOk \in BOOLEAN :
          IF AuthDeviceInvalid(id, secret) # 0
          THEN /\ answer' = Answer("AuthDevice", id, AuthDeviceInvalid(id, secret), Late(id), FALSE)
               /\ admins' = admins
          ELSE IF ~getOk \/ id \notin DOMAIN devices
          THEN /\ answer' = Answer("AuthDevice", id, 401, Late(id), FALSE)
               /\ admins' = admins
          ELSE /\ admins' = Put(admins, h, [op |-> "AuthDevice", id |-> id,
                                          secret |-> secret, device |-> devices[id],
                                          late |-> Late(id)])
               /\ answer' = answer
    /\ UNCHANGED <<data, sent, cut, pc, pos, fields, iterStart, ret, val, call>>
    /\ UNCHANGED <<schema, saves, resp, lastSeen, published, clock, runs>>
    /\ UNCHANGED <<cacheVars, concVars, limiterVars, devices, issued, revocations>>

IssuesWhenRevoked(device) == FALSE

\* if device.Revoked
RefusesRevoked(device) == device.revoked

\* AuthDevice from the revoked check on: CreateCustomToken, UpdateLastSeen
AuthIssue(h) ==
    /\ pc = "auth"
    /\ h \in DOMAIN admins
    /\ admins[h].op = "AuthDevice"
    /\ \E r \in {admins[h]}, tokenOk \in BOOLEAN :
          IF RefusesRevoked(r.device)
          THEN /\ answer' = Answer(r.op, r.id, 403, r.late, TRUE)
               /\ issued' = issued
          ELSE IF ~CompareHashAndPassword(r.device.secretHash, r.secret)
          THEN /\ answer' = Answer(r.op, r.id, 401, r.late, TRUE)
               /\ issued' = issued
          ELSE /\ issued' = issued \cup {[device |-> r.id, late |-> r.late]}
               /\ answer' = Answer(r.op, r.id, IF tokenOk THEN 200 ELSE 500, r.late, TRUE)
    /\ admins' = Delete(admins, h)
    /\ UNCHANGED <<data, sent, cut, pc, pos, fields, iterStart, ret, val, call>>
    /\ UNCHANGED <<schema, saves, resp, lastSeen, published, clock, runs>>
    /\ UNCHANGED <<cacheVars, concVars, limiterVars, devices, revocations, arrivals>>

\* RefreshToken: the device id of the verified token and deviceStore.GetByID
RefreshLookup(h, id) ==
    /\ Free(h)
    /\ arrivals' = arrivals + 1
    /\ \E getOk \in BOOLEAN :
          IF id = NoID \/ ~getOk \/ id \notin DOMAIN devices
          THEN /\ answer' = Answer("RefreshToken", id, 401, Late(id), FALSE)
               /\ admins' = admins
          ELSE /\ admins' = Put(admins, h, [op |-> "RefreshToken", id |-> id,
                                          device |-> devices[id], late |-> Late(id)])
               /\ answer' = answer
    /\ UNCHANGED <<data, sent, cut, pc, pos, fields, iterStart, ret, val, call>>
    /\ UNCHANGED <<schema, saves, resp, lastSeen, published, clock, runs>>
    /\ UNCHANGED <<cacheVars, concVars, limiterVars, devices, issued, revocations>>

\* RefreshToken from the revoked check on: CreateCustomToken, UpdateLastSeen
RefreshIssue(h) ==
    /\ pc = "auth"
    /\ h \in DOMAIN admins
    /\ admins[h].op = "RefreshToken"
    /\ \E r \in {admins[h]}, tokenOk \in BOOLEAN :
          IF RefusesRevoked(r.device)
          THEN /\ answer' = Answer(r.op, r.id, 403, r.late, TRUE)
               /\ issued' = issued
          ELSE /\ issued' = issued \cup {[device |-> r.id, late |-> r.late]}
               /\ answer' = Answer(r.op, r.id, IF tokenOk THEN 200 ELSE 500, r.late, TRUE)
    /\ admins' = Delete(admins, h)
    /\ UNCHANGED <<data, sent, cut, pc, pos, fields, iterStart, ret, val, call>>
    /\ UNCHANGED <<schema, saves, resp, lastSeen, published, clock, runs>>
    /\ UNCHANGED <<cacheVars, concVars, limiterVars, devices, revocations, arrivals>>

\* RevokeDevice: deviceStore.Revoke sets the flag of a stored device
RevokeDevice(id) ==
    /\ pc = "auth"
    /\ arrivals < MaxRequests
    /\ arrivals' = arrivals + 1
    /\ \E revokeOk \in BOOLEAN :
          IF id = NoID \/ ~IsUUID(id)
          THEN /\ answer' = Answer("RevokeDevice", id, 400, Late(id), FALSE)
               /\ UNCHANGED <<devices, revocations>>
          ELSE IF ~revokeOk \/ id \notin DOMAIN devices
          THEN /\ answer' = Answer("RevokeDevice", id, 500, Late(id), FALSE)
               /\ UNCHANGED <<devices, revocations>>
          ELSE /\ devices' = [devices EXCEPT ![id].revoked = TRUE]
               /\ revocations' = revocations \cup {id}
               /\ answer' = Answer("RevokeDevice", id, 200, Late(id), FALSE)
    /\ UNCHANGED <<data, sent, cut, pc, pos, fields, iterStart, ret, val, call>>
    /\ UNCHANGED <<schema, saves, resp, lastSeen, published, clock, runs>>
    /\ UNCHANGED <<cacheVars, concVars, limiterVars, admins, issued>>

\* UpdateDeviceInfo: deviceStore.UpdateAppInfo rewrites the app of a stored device
UpdateDeviceInfo(id, app, version) ==
    /\ pc = "auth"
    /\ arrivals < MaxRequests
    /\ arrivals' = arrivals + 1
    /\ \E updateOk \in BOOLEAN :
          IF id = NoID
          THEN /\ answer' = Answer("UpdateDeviceInfo", id, 401, Late(id), FALSE)
               /\ devices' = devices
          ELSE IF app = "" \/ version = ""
          THEN /\ answer' = Answer("UpdateDeviceInfo", id, 400, Late(id), FALSE)
               /\ devices' = devices
          ELSE IF ~updateOk \/ id \notin DOMAIN devices
          THEN /\ answer' = Answer("UpdateDeviceInfo", id, 500, Late(id), FALSE)
               /\ devices' = devices
          ELSE /\ devices' = [devices EXCEPT ![id].app = app]
               /\ answer' = Answer("UpdateDeviceInfo", id, 200, Late(id), FALSE)
    /\ UNCHANGED <<data, sent, cut, pc, pos, fields, iterStart, ret, val, call>>
    /\ UNCHANGED <<schema, saves, resp, lastSeen, published, clock, runs>>
    /\ UNCHANGED <<cacheVars, concVars, limiterVars, admins, issued, revocations>>

\* ProvisionDevice up to the lookup of the MAC: the status answered, 0 if none
ProvisionInvalid(mac, app, version) ==
    IF mac = <<>> THEN 400
    ELSE IF ~IsValid(mac) THEN 400
    ELSE IF app = "" THEN 400
    ELSE IF version = "" THEN 400
    ELSE 0

\* existingDevice, err := GetByMAC(...); if err == nil && existingDevice != nil
AlreadyRegistered(store, mac, getOk) == getOk /\ ByMAC(store, mac) # {}

\* ProvisionDevice: validation, NormalizeMAC and deviceStore.GetByMAC
ProvisionCheck(h, mac, app, version) ==
    /\ Free(h)
    /\ arrivals' = arrivals + 1
    /\ \E getOk \in BOOLEAN :
          IF ProvisionInvalid(mac, app, version) # 0
          THEN /\ answer' = Answer("ProvisionDevice", mac, ProvisionInvalid(mac, app, version), FALSE, FALSE)
               /\ admins' = admins
          ELSE IF AlreadyRegistered(devices, Normalize(mac), getOk)
          THEN /\ answer' = Answer("ProvisionDevice", mac, 409, FALSE, FALSE)
               /\ admins' = admins
          ELSE /\ admins' = Put(admins, h, [op |-> "ProvisionDevice",
                                          mac |-> Normalize(mac), app |-> app])
               /\ answer' = answer
    /\ UNCHANGED <<data, sent, cut, pc, pos, fields, iterStart, ret, val, call>>
    /\ UNCHANGED <<schema, saves, resp, lastSeen, published, clock, runs>>
    /\ UNCHANGED <<cacheVars, concVars, limiterVars, devices, issued, revocations>>

\* ProvisionDevice from uuid.New() on: the secret and deviceStore.Register
ProvisionRegister(h) ==
    /\ pc = "auth"
    /\ h \in DOMAIN admins
    /\ admins[h].op = "ProvisionDevice"
    /\ \E r \in {admins[h]}, id \in {NewUUID(devices)}, registerOk \in BOOLEAN :
          IF ~registerOk
          THEN /\ answer' = Answer(r.op, r.mac, 500, FALSE, TRUE)
               /\ devices' = devices
          ELSE /\ devices' = Put(devices, id, Device(r.mac, r.app, Secret(id)))
               /\ answer' = Answer(r.op, r.mac, 201, FALSE, TRUE)
    /\ admins' = Delete(admins, h)
    /\ UNCHANGED <<data, sent, cut, pc, pos, fields, iterStart, ret, val, call>>
    /\ UNCHANGED <<schema, saves, resp, lastSeen, published, clock, runs>>
    /\ UNCHANGED <<cacheVars, concVars, limiterVars, issued, revocations, arrivals>>

\* the device ids and the secrets a request may carry
RequestIDs == DOMAIN devices \cup {UnknownID, NoID, BadID}

RequestSecrets == {Secret(id) : id \in DOMAIN devices} \cup {WrongSecret, ShortSecret, EmptySecret}

\* the store is empty or holds one provisioned device
InitAuth ==
    /\ data = <<>>
    /\ sent = <<>>
    /\ cut = 0
    /\ pc = "auth"
    /\ pos = 0
    /\ fields = <<>>
    /\ iterStart = -1
    /\ ret = NoReturn
    /\ val = {}
    /\ call = NoCall
    /\ schema = DeviceSchema
    /\ saves = <<>>
    /\ resp = NoResponse
    /\ lastSeen = FALSE
    /\ published = <<>>
    /\ clock \in Nows
    /\ runs = <<>>
    /\ cache = EmptyCache
    /\ time = 0
    /\ ttl = 0
    /\ loadCount = 0
    /\ schemaStore = NoSchema
    /\ inflight = <<>>
    /\ uploader = "idle"
    /\ requests = <<>>
    /\ limiter = [window |-> 0, limit |-> 0]
    /\ allowed = <<>>
    /\ devices \in {<<>>, Put(<<>>, DeviceID(1), Device(PlainMac, "sensor", Secret(DeviceID(1))))}
    /\ admins = <<>>
    /\ issued = {}
    /\ answer = NoAnswer
    /\ revocations = {}
    /\ arrivals = 0

NextAuth ==
    \/ \E h \in Handlers, id \in RequestIDs, secret \in RequestSecrets : AuthLookup(h, id, secret)
    \/ \E h \in Handlers : AuthIssue(h)
    \/ \E h \in Handlers, id \in RequestIDs : RefreshLookup(h, id)
    \/ \E h \in Handlers : RefreshIssue(h)
    \/ \E id \in RequestIDs : RevokeDevice(id)
    \/ \E id \in RequestIDs, app \in AppNames, version \in AppVersions :
          UpdateDeviceInfo(id, app, version)
    \/ \E h \in Handlers, mac \in MacInputs, app \in AppNames, version \in AppVersions :
          ProvisionCheck(h, mac, app, version)
    \/ \E h \in Handlers : ProvisionRegister(h)

SpecAuth == InitAuth /\ [][NextAuth]_vars

(***************************************************************************)
(* decodeMeasurementBatch on batches whose value fields have a wire type   *)
(* other than the one their number declares                                *)
(***************************************************************************)

\* the batches of at most MaxPieces messages
OneofBatches == UNION {[1..n -> OneofMessages] : n \in 0..MaxPieces}

\* the envelope fields of a batch, as the sender writes them
BatchPieces(msgs) ==
    [i \in DOMAIN msgs |-> FieldPiece(BytesField(1, EncodeMessage(msgs[i])))]

\* a batch was written to the buffer
InitOneof ==
    /\ \E msgs \in OneofBatches :
          /\ data = Envelope(msgs)
          /\ sent = BatchPieces(msgs)
    /\ cut = 0
    /\ pc = "build"
    /\ pos = 0
    /\ fields = <<>>
    /\ iterStart = -1
    /\ ret = NoReturn
    /\ val = {}
    /\ call = NoCall
    /\ schema = DeviceSchema
    /\ Idle

NextOneof == DecodeMeasurementBatchCall

SpecOneof == InitOneof /\ [][NextOneof]_vars

(***************************************************************************)
(* Properties                                                              *)
(***************************************************************************)

\* index of the first byte of d with the continuation bit clear, 0 if there is none
VarintEnd(d) ==
    IF \E i \in DOMAIN d : d[i] < 128
    THEN CHOOSE i \in DOMAIN d : d[i] < 128 /\ \A j \in 1..(i - 1) : d[j] >= 128
    ELSE 0

\* d starts with no varint of at most 10 bytes
MalformedVarint(d) == VarintEnd(d) = 0 \/ VarintEnd(d) > 10

\* the low three bits of the tag that starts at position p
WireBitsAt(d, p) == d[p + 1] % 8

\* an unsigned 64-bit integer exceeds a small natural
UnsignedGt(s, n) == ~IsSmall(s) \/ Val(s) > n

\* Decode has run an iteration that started inside the buffer
IterationRan == iterStart >= 0 /\ iterStart < Len(data)

\* Decode returned an error and no message
ReturnedError == ret.status = "error" /\ ret.msg = <<>>

\* at position p stands a length-delimited field whose declared length exceeds
\* the bytes that remain after its length varint
TruncatedBytesAt(d, p) ==
    LET t == decodeVarint(SliceFrom(d, p))
        l == decodeVarint(SliceFrom(d, p + t.n))
    IN /\ t.n > 0
       /\ TagWireType(t.val) = WireBytes
       /\ l.n > 0
       /\ UnsignedGt(l.val, Len(d) - (p + t.n + l.n))

\* C1: an iteration of Decode that meets a length-delimited field declaring more
\* bytes than remain, for any declared length up to 2^64-1, makes Decode return
\* an error and no message.
C1_TruncatedBytesIsError ==
    IterationRan /\ TruncatedBytesAt(data, iterStart) => ReturnedError

\* C3: decodeVarint(encodeVarint(v)) gives back v and consumes exactly the bytes
\* of the encoding, 1 to 10 of them, whatever follows in the buffer.
C3_VarintRoundTrip ==
    call.op = "decodeVarint" =>
        /\ call.out.val = val
        /\ call.out.n = Len(sent[1].bytes)
        /\ call.out.n \in 1..10

\* a 10-byte encoding, of 2^64-1, decoded with another byte after it
C3_RoundTripOfMaxUint64 ==
    /\ call.op = "decodeVarint"
    /\ val = Bits64
    /\ call.out.n = 10
    /\ Len(data) > 10

\* at position p stands a tag, a varint payload or a length that is no varint of
\* at most 10 bytes: it runs past 10 bytes or past the end of the buffer
BadVarintAt(d, p) ==
    \/ MalformedVarint(SliceFrom(d, p))
    \/ /\ WireBitsAt(d, p) \in {WireVarint, WireBytes}
       /\ MalformedVarint(SliceFrom(d, p + VarintEnd(SliceFrom(d, p))))

\* C4: a varint of more than 10 bytes, or one the buffer ends in, in the place of
\* a tag, a varint payload or a length makes Decode return an error and no message.
C4_MalformedVarintIsError ==
    IterationRan /\ BadVarintAt(data, iterStart) => ReturnedError

\* a varint payload of 11 bytes met after a field was decoded
C4_OverlongPayloadAfterField ==
    /\ IterationRan
    /\ fields # <<>>
    /\ ~MalformedVarint(SliceFrom(data, iterStart))
    /\ WireBitsAt(data, iterStart) = WireVarint
    /\ VarintEnd(SliceFrom(data, iterStart + VarintEnd(SliceFrom(data, iterStart)))) > 10
    /\ ReturnedError

\* at position p stands a well-formed tag whose wire type is none of 0, 1, 2, 5
UnknownWireTypeAt(d, p) ==
    /\ ~MalformedVarint(SliceFrom(d, p))
    /\ WireBitsAt(d, p) \notin {WireVarint, WireFixed64, WireBytes, WireFixed32}

\* C5: a tag whose wire type is none of 0, 1, 2, 5 makes Decode return an error
\* and a nil message, wherever the tag stands; the fields decoded before it are
\* not returned.
C5_UnknownWireTypeIsError ==
    IterationRan /\ UnknownWireTypeAt(data, iterStart) => ReturnedError

\* a group marker met after a field was decoded
C5_GroupMarkerAfterField ==
    /\ IterationRan
    /\ UnknownWireTypeAt(data, iterStart)
    /\ WireBitsAt(data, iterStart) \in {3, 4}
    /\ fields # <<>>
    /\ ReturnedError

\* the fields written into the buffer, in order
SentFields == [i \in DOMAIN sent |-> sent[i].field]

\* the buffer is the concatenation of the encodings of the fields written
IsConcatenation == WellFormed(sent) /\ cut = 0

\* only the payload member the wire type selects is set
OnlySelectedPayload(f) ==
    /\ f.WireType # WireVarint => f.Varint = {}
    /\ f.WireType # WireFixed32 => f.Fixed32 = {}
    /\ f.WireType # WireFixed64 => f.Fixed64 = {}
    /\ f.WireType # WireBytes => f.Bytes = <<>>

\* C6: on the concatenation of k >= 0 well-formed field encodings Decode succeeds
\* and returns exactly the k fields, in the order of the byte stream, each with
\* the number, wire type and payload encoded and every other payload member zero.
C6_DecodesConcatenation ==
    ret.status # "none" /\ IsConcatenation =>
        /\ ret.status = "ok"
        /\ ret.msg = SentFields
        /\ \A i \in DOMAIN ret.msg : OnlySelectedPayload(ret.msg[i])

\* two different fields with the same number decoded, both kept in order
C6_DuplicateNumbersKept ==
    /\ ret.status = "ok"
    /\ IsConcatenation
    /\ Len(ret.msg) = 2
    /\ ret.msg[1].Num = ret.msg[2].Num
    /\ ret.msg[1] # ret.msg[2]

\* the buffer is a concatenation of field encodings cut inside the last one
CutInsideField ==
    /\ WellFormed(sent)
    /\ sent # <<>>
    /\ 0 < cut
    /\ cut < Len(sent[Len(sent)].bytes)

\* the buffer ends inside the field that starts at position p: inside its tag,
\* its varint payload, its fixed-width value, its length or its payload
EndsInsideFieldAt(d, p) ==
    LET tagEnd == VarintEnd(SliceFrom(d, p))
        rest == SliceFrom(d, p + tagEnd)
    IN \/ tagEnd = 0
       \/ /\ tagEnd \in 1..10
          /\ \/ WireBitsAt(d, p) \in {WireVarint, WireBytes} /\ VarintEnd(rest) = 0
             \/ WireBitsAt(d, p) = WireFixed32 /\ Len(rest) < 4
             \/ WireBitsAt(d, p) = WireFixed64 /\ Len(rest) < 8
             \/ TruncatedBytesAt(d, p)

\* C7: Decode returns a message only with its cursor at the end of the buffer, and
\* a buffer that ends inside a tag, a varint, a fixed-width value or a
\* length-delimited payload yields an error and a nil message.
C7_ConsumesExactlyTheBuffer ==
    /\ ret.status = "ok" => pos = Len(data) /\ ret.pos = Len(data)
    /\ IterationRan /\ EndsInsideFieldAt(data, iterStart) => ReturnedError

\* the length declared at position p, as a signed integer, is negative or
\* overflows when added to the cursor
LengthOverflowsAt(d, p) ==
    LET t == decodeVarint(SliceFrom(d, p))
        l == decodeVarint(SliceFrom(d, p + t.n))
    IN /\ TruncatedBytesAt(d, p)
       /\ IsNegative(l.val) \/ IsNegative(BytesEnd(p + t.n + l.n, l.val))

\* what holds of every buffer that ends inside a field: Decode returns no
\* message, and returns an error unless the declared length overflows
CutFieldGivesNoMessage ==
    /\ ret.status = "ok" => pos = Len(data) /\ ret.pos = Len(data)
    /\ IterationRan /\ EndsInsideFieldAt(data, iterStart) =>
          /\ ret.msg = <<>>
          /\ ret.status \in {"error", "panic"}
          /\ ret.status = "panic" => LengthOverflowsAt(data, iterStart)
    /\ ret.status # "none" /\ CutInsideField => ReturnedError

\* a buffer cut inside its second field: the first field was decoded and is dropped
CutAfterDecodedField ==
    /\ CutInsideField
    /\ fields # <<>>
    /\ ReturnedError

\* C8: the field appended for a tag t has the field number t >> 3 and the wire
\* type t & 0x7, for every 64-bit t.
C8_FieldNumberIsTagShift ==
    pc = "decode" =>
        LET t == decodeVarint(SliceFrom(data, iterStart)).val
            f == fields[Len(fields)]
        IN /\ f.Num = Shr(t, 3)
           /\ f.WireType = Val(t \cap (0..2))

\* the places of message m that hold a field with number n
Places(m, n) == {i \in DOMAIN m : m[i].Num = n}

\* how many places of S come at or before place i
Rank(S, i) == Cardinality({j \in S : j <= i})

\* C9: GetField gives the first field with the number asked for and GetAllFields
\* all of them in message order; both give nothing for a number that does not
\* occur, and the message is left as decoded.
C9_Lookups ==
    /\ call.op = "GetField" =>
          LET S == Places(ret.msg, call.arg)
          IN /\ S = {} => call.out = 0
             /\ S # {} => call.out \in S /\ \A j \in S : call.out <= j
             /\ ret.msg = fields
    /\ call.op = "GetAllFields" =>
          LET S == Places(ret.msg, call.arg)
          IN /\ Len(call.out) = Cardinality(S)
             /\ \A i \in S : call.out[Rank(S, i)] = ret.msg[i]
             /\ ret.msg = fields

\* GetAllFields on a message that holds the number twice, with different payloads
C9_TwoMatchesInOrder ==
    /\ call.op = "GetAllFields"
    /\ Len(call.out) = 2
    /\ call.out[1] = ret.msg[1]
    /\ call.out[1] # call.out[2]

\* the fields an embedded payload written by the sender encodes
EmbeddedFields(b) == IF b = InnerMessage THEN <<VarintField(1, BitsOf(100))>> ELSE <<>>

\* the places of the envelope written that hold an embedded message at number n
EmbeddedPlaces(n) ==
    {i \in DOMAIN sent : sent[i].field.Num = n /\ sent[i].field.WireType = WireBytes}

\* the envelope is well-formed and so is every embedded message at number n
EnvelopeWellFormed(n) ==
    /\ IsConcatenation
    /\ \A i \in EmbeddedPlaces(n) : sent[i].field.Bytes \in {InnerMessage, <<>>}

\* C10: on a well-formed envelope DecodeRepeated(data, n) returns one decoded
\* message per length-delimited field with number n, in stream order; fields with
\* number n and another wire type and fields with other numbers give no message
\* and no error.
C10_DecodeRepeated ==
    call.op = "DecodeRepeated" /\ EnvelopeWellFormed(call.arg) =>
        LET S == EmbeddedPlaces(call.arg)
        IN /\ call.out.status = "ok"
           /\ Len(call.out.msgs) = Cardinality(S)
           /\ \A i \in S : call.out.msgs[Rank(S, i)] = EmbeddedFields(sent[i].field.Bytes)

\* one embedded message next to a field with the same number and another wire type
C10_OtherWireTypeSkipped ==
    /\ call.op = "DecodeRepeated"
    /\ EnvelopeWellFormed(call.arg)
    /\ Len(call.out.msgs) = 1
    /\ call.out.msgs[1] # <<>>
    /\ \E i \in DOMAIN sent :
          sent[i].field.Num = call.arg /\ sent[i].field.WireType # WireBytes

RECURSIVE PiecesLen(_)
\* the number of bytes the pieces ps were written as
PiecesLen(ps) == IF ps = <<>> THEN 0 ELSE Len(Head(ps).bytes) + PiecesLen(Tail(ps))

\* the number of bytes written after piece i
TailLen(i) == PiecesLen(SubSeq(sent, i + 1, Len(sent)))

\* the buffer ends inside a piece
CutInsidePiece == \A i \in 0..Len(sent) : cut # TailLen(i)

\* piece i is whole in the buffer and is a field-1 sub-message that is malformed
BadMeasurementAt(i) ==
    /\ cut <= TailLen(i)
    /\ sent[i].kind = "field"
    /\ sent[i].field.Num = measurementFieldID
    /\ sent[i].field.WireType = WireBytes
    /\ sent[i].field.Bytes \in BadPayloads

\* the envelope or one of its field-1 sub-messages is malformed
BatchMalformed ==
    \/ \E i \in DOMAIN sent : sent[i].kind = "raw"
    \/ CutInsidePiece
    \/ \E i \in DOMAIN sent : BadMeasurementAt(i)

\* the request reached the decoding of its body
ReachedDecoding == call.op = "HandleTelemetryProto" /\ call.fault = "none"

\* C2: when the envelope or any field-1 sub-message is malformed, DecodeRepeated
\* and decodeMeasurementBatch return an error and no messages or measurements,
\* and HandleTelemetryProto responds 400 and makes no Save call.
C2_DecodeErrorAbortsBatch ==
    BatchMalformed =>
        /\ call.op = "DecodeRepeated" =>
              call.out.status = "error" /\ call.out.msgs = <<>>
        /\ call.op = "decodeMeasurementBatch" =>
              call.out.status = "error" /\ call.out.measurements = <<>>
        /\ ReachedDecoding => resp.status = 400 /\ saves = <<>>

\* a piece declares a length that overflows the signed cursor arithmetic
DeclaresOverflowingLength ==
    \E i \in DOMAIN sent :
        \/ sent[i].bytes = <<10>> \o encodeVarint(0..62)
        \/ sent[i].field.Bytes = <<10>> \o encodeVarint(0..62)

\* what holds of every malformed batch: nothing is returned, nothing is saved,
\* and the answer is 400 unless a declared length overflows, when the decoder
\* panics and the answer is 500
MalformedBatchSavesNothing ==
    BatchMalformed =>
        /\ call.op = "DecodeRepeated" =>
              /\ call.out.status \in {"error", "panic"}
              /\ call.out.msgs = <<>>
              /\ call.out.status = "panic" => DeclaresOverflowingLength
        /\ call.op = "decodeMeasurementBatch" =>
              /\ call.out.status \in {"error", "panic"}
              /\ call.out.measurements = <<>>
              /\ call.out.status = "panic" => DeclaresOverflowingLength
        /\ ReachedDecoding =>
              /\ resp.status \in {400, 500}
              /\ resp.status = 500 => DeclaresOverflowingLength
              /\ saves = <<>> /\ published = <<>> /\ ~lastSeen

\* a malformed sub-message after a well-formed measurement that would be saved
MalformedAfterGoodMeasurement ==
    /\ ReachedDecoding
    /\ Len(sent) = 2
    /\ sent[1].field = BytesField(1, EncodeMessage(TemperatureMsg))
    /\ BadMeasurementAt(2)
    /\ resp.status = 400

\* the varint payloads 0, 1, 2, 3, 4 and the signed 32-bit values they stand for
ZigZagTable ==
    { <<{}, {}>>, <<BitsOf(1), Bits32>>, <<BitsOf(2), BitsOf(1)>>,
      <<BitsOf(3), Bits32 \ {0}>>, <<BitsOf(4), BitsOf(2)>> }

\* C11: AsSint32 of the zig-zag encoding of a signed 32-bit n is n, AsSint64 of
\* the zig-zag encoding of a signed 64-bit n is n, and the varint payloads
\* 0, 1, 2, 3, 4 are read as 0, -1, 1, -2, 2.
C11_ZigZagRoundTrip ==
    /\ call.op \in {"AsSint32", "AsSint64"} => call.out = call.n
    /\ call.op = "AsSint32" =>
          \A row \in ZigZagTable : call.enc = row[1] => call.out = row[2]

\* the most negative 64-bit integer read back from the encoding 2^64-1
C11_MinInt64ReadBack ==
    /\ call.op = "AsSint64"
    /\ call.n = {63}
    /\ call.enc = Bits64
    /\ call.out = {63}

\* the batch is a concatenation of envelope fields whose field-1 sub-messages
\* are all well-formed
BatchWellFormed ==
    /\ WellFormed(sent)
    /\ cut = 0
    /\ \A i \in DOMAIN sent : ~BadMeasurementAt(i)

\* the places of the envelope that hold a measurement
MeasurementPlaces ==
    {i \in DOMAIN sent : sent[i].field.Num = measurementFieldID
                         /\ sent[i].field.WireType = WireBytes}

\* the sub-message behind each payload the sender encodes
MessageOfBytes ==
    [b \in {EncodeMessage(m) : m \in MeasurementMessages \cup MismatchMessages \cup {<<>>}} |->
        CHOOSE m \in MeasurementMessages \cup MismatchMessages \cup {<<>>} :
            EncodeMessage(m) = b]

\* the fields of the sub-message the sender encoded at place i
SentMessage(i) == MessageOfBytes[sent[i].field.Bytes]

\* the sub-messages sent, in batch order
SentMessages ==
    LET places == MeasurementPlaces
    IN [k \in 1..Cardinality(places) |->
           SentMessage(CHOOSE i \in places : Rank(places, i) = k)]

\* the runtime type the claim gives to a value field number
TypeOfNumber(n) ==
    CASE n = 2 -> "float32" [] n = 3 -> "float64" [] n = 4 -> "int32" [] n = 5 -> "int64"
      [] n = 6 -> "uint32" [] n = 7 -> "uint64" [] n = 8 -> "bool"

\* the places of a sent sub-message whose number is in 2..8
ValuePlaces(m) == {i \in DOMAIN m : IsSmall(m[i].Num) /\ Val(m[i].Num) \in 2..8}

\* the first of a nonempty set of places
First(S) == CHOOSE i \in S : \A j \in S : i <= j

\* the payload of a sent field at the width of its type
SentBits(f) ==
    CASE f.WireType = WireFixed32 -> f.Fixed32
      [] f.WireType = WireFixed64 -> f.Fixed64
      [] Val(f.Num) \in {4, 6} -> f.Varint \cap Bits32
      [] Val(f.Num) = 8 -> IF f.Varint = {} THEN {} ELSE {0}
      [] OTHER -> f.Varint

\* C12: the value of a measurement is that of the first field, in stream order,
\* whose number is in 2..8, with the type of that number; later fields in 2..8
\* are ignored, fields with other numbers never end the scan, and a sub-message
\* with no field in 2..8 has no value.
C12_FirstValueFieldWins ==
    call.op = "decodeMeasurementBatch" /\ BatchWellFormed =>
        /\ call.out.status = "ok"
        /\ Len(call.out.measurements) = Len(SentMessages)
        /\ \A k \in DOMAIN SentMessages :
              LET m == SentMessages[k]
                  v == call.out.measurements[k].Value
              IN IF ValuePlaces(m) = {} THEN v = NilValue
                 ELSE /\ v.type = TypeOfNumber(Val(m[First(ValuePlaces(m))].Num))
                      /\ v.bits = SentBits(m[First(ValuePlaces(m))])

\* a batch decoded that holds a sub-message with two value fields and one with
\* a field of another number between the id and the value
C12_TwoValueFieldsAndExtraField ==
    /\ call.op = "decodeMeasurementBatch"
    /\ BatchWellFormed
    /\ Len(SentMessages) = 2
    /\ SentMessages[1] = TwoValuesMsg
    /\ SentMessages[2] = ExtraFieldMsg
    /\ call.out.measurements[1].Value.type = "int32"
    /\ call.out.measurements[2].Value = TypedValue("uint32", BitsOf(42))

\* the id the sender gave a sub-message: its first field 1, 0 without one
SentID(m) ==
    LET S == {i \in DOMAIN m : m[i].Num = measurementFieldID}
    IN IF S = {} THEN {} ELSE m[First(S)].Varint \cap Bits32

\* the value the sender gave a sub-message: its first field in 2..8
SentValue(m) ==
    IF ValuePlaces(m) = {} THEN NilValue
    ELSE TypedValue(TypeOfNumber(Val(m[First(ValuePlaces(m))].Num)),
                    SentBits(m[First(ValuePlaces(m))]))

\* the ids of the schema entries named "timestamp"
TimestampIds == {schema[k].ID : k \in {j \in DOMAIN schema : schema[j].Name = "timestamp"}}

\* the places of the batch that hold a timestamp measurement
TimestampPlaces ==
    LET msgs == SentMessages
        ids == TimestampIds
    IN {k \in DOMAIN msgs : SentID(msgs[k]) \in ids}

\* the value of a measurement read as epoch milliseconds, the clock if it is
\* no integer
AsEpochMillis(v, now) ==
    CASE v.type \in {"uint64", "int64", "uint32"} -> UnixMilli(v.bits)
      [] v.type = "int32" -> UnixMilli(SignExtend32(v.bits))
      [] OTHER -> now

\* the timestamp the claim gives the batch
ClaimedTimestamp ==
    LET places == TimestampPlaces
    IN IF places = {} THEN call.now
       ELSE AsEpochMillis(SentValue(SentMessages[First(places)]), call.now)

\* the timestamps the handler gave to readings and to the event
EffectiveTimestamps ==
    {published[i].timestamp : i \in DOMAIN published}
        \cup {saves[i].data.Timestamp : i \in DOMAIN saves}

\* C13: the effective timestamp of a batch is the value of its first timestamp
\* measurement read as epoch milliseconds, whatever timestamp measurements
\* follow, and the server's current time if no measurement supplies one.
C13_TimestampFromFirst ==
    ReachedDecoding /\ BatchWellFormed =>
        /\ resp.status = 200
        /\ \A t \in EffectiveTimestamps : t = ClaimedTimestamp

\* what holds of every batch: the claimed timestamp is the effective one unless
\* the first timestamp measurement carries the instant of the zero time.Time,
\* which the handler takes for "no timestamp" and replaces by the clock
TimestampFromFirstUnlessZeroTime ==
    ReachedDecoding /\ BatchWellFormed =>
        /\ resp.status = 200
        /\ \A t \in EffectiveTimestamps :
              t = IF IsZero(ClaimedTimestamp) THEN call.now ELSE ClaimedTimestamp

\* two timestamp measurements in one batch, the first one used for the event
TwoTimestampsFirstUsed ==
    /\ ReachedDecoding
    /\ BatchWellFormed
    /\ Len(SentMessages) = 2
    /\ SentMessages[1] = LaterTimestampMsg
    /\ SentMessages[2] = TimestampMsg
    /\ Len(published) = 1
    /\ published[1].timestamp = UnixMilli(Wide(791, 1340494432))

\* a reading stamped with the timestamp measurement that precedes it
ReadingStampedByMeasurement ==
    /\ ReachedDecoding
    /\ BatchWellFormed
    /\ Len(SentMessages) = 2
    /\ SentMessages[1] = TimestampMsg
    /\ Len(saves) = 1
    /\ saves[1].data.Timestamp = UnixMilli(Wide(791, 1340434432))

\* C14: no reading handed to telemetryStore.Save has Type "timestamp", however
\* many timestamp measurements the batch holds and whatever their value type.
C14_NoTimestampReading ==
    \A i \in DOMAIN saves : saves[i].data.Type # "timestamp"

\* a batch with a timestamp measurement and a reading, one Save call made
C14_TimestampBesideReading ==
    /\ ReachedDecoding
    /\ BatchWellFormed
    /\ TimestampPlaces # {}
    /\ SentValue(SentMessages[First(TimestampPlaces)]) # NilValue
    /\ Len(saves) = 1

\* the ids the schema has an entry for
SchemaIds == {schema[k].ID : k \in DOMAIN schema}

\* the places of the batch whose id the schema lacks
UnknownPlaces ==
    LET msgs == SentMessages
        ids == SchemaIds
    IN {k \in DOMAIN msgs : SentID(msgs[k]) \notin ids}

\* the places of the batch that survive: id in the schema, entry not named
\* "timestamp", a value present
SurvivorPlaces ==
    LET msgs == SentMessages
        unknown == UnknownPlaces
        timestamps == TimestampPlaces
    IN {k \in DOMAIN msgs :
           /\ k \notin unknown
           /\ k \notin timestamps
           /\ SentValue(msgs[k]) # NilValue}

\* C15: a measurement whose id the schema lacks is no decode error: no Save
\* call is made for it, the other measurements are still processed and the
\* response is 200 with a count that leaves it out.
C15_UnknownIdIsSkipped ==
    ReachedDecoding /\ BatchWellFormed /\ UnknownPlaces # {} =>
        /\ resp.status = 200
        /\ Len(saves) = Cardinality(SurvivorPlaces)
        /\ resp.measurements = Cardinality({i \in DOMAIN saves : saves[i].ok})

\* a measurement with an unknown id in front of a reading that is saved
C15_UnknownIdBeforeReading ==
    /\ ReachedDecoding
    /\ BatchWellFormed
    /\ UnknownPlaces = {1}
    /\ SurvivorPlaces = {2}
    /\ resp.status = 200
    /\ resp.measurements = 1
    /\ Len(saves) = 1

\* the conversion of Go from the runtime type of a value to float64
GoFloat64(v) ==
    CASE v.type = "float32" -> Float32To64(v.bits)
      [] v.type = "float64" -> v.bits
      [] v.type = "int32" -> Int64ToFloat64(SignExtend32(v.bits))
      [] v.type = "int64" -> Int64ToFloat64(v.bits)
      [] v.type \in {"uint32", "uint64"} -> Uint64ToFloat64(v.bits)
      [] v.type = "bool" -> IF v.bits = {} THEN {} ELSE Float64One

\* the timestamp the handler works with after its first pass: that of the first
\* timestamp measurement, the clock if that is the zero time.Time
EffectiveTimestamp ==
    LET claimed == ClaimedTimestamp
    IN IF IsZero(claimed) THEN call.now ELSE claimed

\* the surviving measurements sent, in batch order
Survivors ==
    LET msgs == SentMessages
        places == SurvivorPlaces
    IN [j \in 1..Cardinality(places) |-> msgs[CHOOSE k \in places : Rank(places, k) = j]]

\* reading d carries the name and unit of a schema entry with this id
TaggedBySchema(d, id) ==
    \E k \in DOMAIN schema :
        schema[k].ID = id /\ d.Type = schema[k].Name /\ d.Unit = schema[k].Unit

\* C16: for a decoded batch in which every Save succeeds, Save is called once
\* per surviving measurement, in batch order, with the schema entry's name and
\* unit, the batch's effective timestamp and the value coerced to float64; none
\* of the seven value types gives a coercion error.
C16_OneReadingPerSurvivor ==
    ReachedDecoding /\ BatchWellFormed /\ (\A i \in DOMAIN saves : saves[i].ok) =>
        LET survivors == Survivors
            timestamp == EffectiveTimestamp
        IN /\ Len(saves) = Len(survivors)
           /\ resp.measurements = Len(survivors)
           /\ \A j \in DOMAIN saves :
                 /\ TaggedBySchema(saves[j].data, SentID(survivors[j]))
                 /\ saves[j].data.Timestamp = timestamp
                 /\ saves[j].data.Value = GoFloat64(SentValue(survivors[j]))

\* two readings saved in batch order: float32 23.5 as 23.5, then uint64
\* 2^63 + 3072 as 2^63 + 4096
C16_FloatThenUint64 ==
    /\ ReachedDecoding
    /\ BatchWellFormed
    /\ Len(SentMessages) = 2
    /\ SentMessages[1] = TemperatureMsg
    /\ SentMessages[2] = Uint64ReadingMsg
    /\ Len(saves) = 2
    /\ saves[1].ok /\ saves[2].ok
    /\ saves[1].data.Type = "temperature"
    /\ saves[1].data.Value = Shl64(BitsOf(263032), 44)
    /\ saves[2].data.Unit = "percent"
    /\ saves[2].data.Value = {1, 53, 54, 55, 56, 57, 62}

\* the timestamps a request handled gave to its readings
Stamps(run) == {run.readings[i].Timestamp : i \in DOMAIN run.readings}

\* two requests handled with the same body at the same reading of the clock
SameInputs(i, j) ==
    /\ runs[i].body = runs[j].body
    /\ runs[i].now = runs[j].now
    /\ runs[i].status = 200
    /\ runs[j].status = 200

\* C17: two runs given the same buffer, the same schema and the same current
\* time produce the same readings in the same order and the same effective
\* timestamp, whatever was decoded before or in between, for every schema,
\* also one in which two entries carry the same id.
C17_SameInputsSameReadings ==
    \A i, j \in DOMAIN runs :
        SameInputs(i, j) =>
            /\ runs[i].readings = runs[j].readings
            /\ \A s \in Stamps(runs[i]), t \in Stamps(runs[j]) : s = t

\* no two entries of the schema carry the same id
IdsDistinct == \A k, l \in DOMAIN schema : schema[k].ID = schema[l].ID => k = l

\* what holds of every schema: the same for a schema whose ids are distinct
SameInputsSameReadingsIfIdsDistinct == IdsDistinct => C17_SameInputsSameReadings

\* the same body handled twice at the same time with another body in between
SameBodyAroundAnother ==
    /\ IdsDistinct
    /\ Len(runs) = 3
    /\ SameInputs(1, 3)
    /\ runs[2].body # runs[1].body
    /\ runs[2].status = 200
    /\ runs[1].readings # <<>>
    /\ runs[2].readings # <<>>

\* C19: every iteration of Decode returns an error or advances the cursor by at
\* least one byte, so Decode produces at most len(data) fields, and
\* DecodeRepeated makes at most one nested Decode call per envelope field.
C19_IterationErrsOrAdvances ==
    /\ iterStart >= 0 => ReturnedError \/ pos >= iterStart + 1
    /\ Len(fields) <= Len(data)
    /\ ret.status = "ok" => Len(ret.msg) <= Len(data)
    /\ call.op = "DecodeRepeated" =>
          \A outer \in {Decode(data)} :
              call.out.decodes <= IF outer.status = "ok" THEN Len(outer.msg) ELSE 0

\* Decode returned at the end of the buffer after one iteration per field
\* written, the cursor past the start of the last one
C19_DecodedToTheEnd ==
    /\ pc = "returned"
    /\ ret.status = "ok"
    /\ Len(sent) = 2
    /\ Len(ret.msg) = 2
    /\ pos = Len(data)
    /\ iterStart > 0
    /\ iterStart < pos

\* the last call was a Get that found an entry for its key, not yet expired
GetFoundFresh ==
    /\ call.op = "Get"
    /\ call.key \in DOMAIN call.before
    /\ call.at < call.before[call.key].expiresAt

\* C20: Get returns the stored value without a call of the loader when its key
\* has an entry, put there by a Get or a Set, and the clock is before the
\* entry's expiry; with no entry, an expired one, or after Invalidate or
\* InvalidateAll took the key away, it calls the loader once, stores what the
\* loader returned with expiry now + ttl, and returns it.
C20_FreshHitElseLoadOnce ==
    /\ call.op = "Get" =>
          IF GetFoundFresh
          THEN /\ call.loads = 0
               /\ ~call.out.err
               /\ call.out.value = call.before[call.key].value
               /\ cache = call.before
          ELSE /\ call.loads = 1
               /\ call.out.err = call.loaded.err
               /\ ~call.loaded.err =>
                     /\ call.out.value = call.loaded.value
                     /\ cache = Put(call.before, call.key,
                                    [value |-> call.loaded.value, expiresAt |-> time + ttl])
               /\ call.loaded.err => cache = call.before
    /\ call.op = "Set" =>
          /\ call.key \in DOMAIN cache
          /\ cache[call.key] = [value |-> SetValue, expiresAt |-> time + ttl]
    /\ call.op = "Invalidate" => call.key \notin DOMAIN cache
    /\ call.op = "InvalidateAll" => DOMAIN cache = {}

\* a Get at the very expiry of the entry a Set made: the loader is called and
\* its value replaces the entry
C20_ReloadAtExpiry ==
    /\ call.op = "Get"
    /\ call.key \in DOMAIN call.before
    /\ call.before[call.key].value = SetValue
    /\ call.at = call.before[call.key].expiresAt
    /\ ttl > 0
    /\ call.loads = 1
    /\ ~call.out.err
    /\ cache[call.key].value = call.out.value
    /\ call.out.value # SetValue

\* what a request with this body gives when all its measurements are resolved
\* against one schema: the timestamp and the readings
Resolutions ==
    [body \in ConcBodies, s \in {OldSchema, NewSchema}, now \in Nows |->
        {Passes(decodeMeasurementBatch(body).measurements, m, now) : m \in IdToMetas(s)}]

\* the same for request h and its own body
ResolvedAgainst(h, s) == Resolutions[inflight[h].body, s, clock]

\* request h is answered with status 200
Answered(h) == h \in DOMAIN inflight /\ inflight[h].pc = "done" /\ inflight[h].status = 200

\* C18: with requests running concurrently with each other and with an upload
\* of a schema for the same app and version, every request resolves all
\* measurements of its batch, in the timestamp pass and in the emission pass,
\* against one schema, the old one or the new one, and nothing of what it
\* emits depends on the buffer of another request.
C18_OneSnapshotPerRequest ==
    \A h \in Handlers :
        Answered(h) =>
            /\ inflight[h].schema \in {OldSchema, NewSchema}
            /\ [timestamp |-> inflight[h].timestamp, readings |-> inflight[h].readings]
                  \in ResolvedAgainst(h, inflight[h].schema)

\* two requests with different bodies answered, one resolved against the old
\* schema and one against the new, the whole upload having come between the
\* two passes of the first
C18_UploadBetweenPasses ==
    /\ Answered(1)
    /\ Answered(2)
    /\ inflight[1].body # inflight[2].body
    /\ inflight[1].schema = OldSchema
    /\ inflight[1].uploads = <<"idle", "done">>
    /\ inflight[2].schema = NewSchema
    /\ inflight[1].readings # <<>>
    /\ inflight[2].readings # <<>>
    /\ uploader = "done"

\* TTL.Len
CacheLen(c) == Cardinality(DOMAIN c)

\* the last call was a Get whose loader returned an error
GetLoaderFailed == call.op = "Get" /\ call.loads = 1 /\ call.loaded.err

\* C21: when the loader returns an error, Get returns the error with the zero
\* value and leaves the cache as it was: no entry is added for the key, an
\* expired entry is neither refreshed nor removed, and Len() is unchanged.
C21_LoaderErrorLeavesCache ==
    GetLoaderFailed =>
        /\ call.out.err
        /\ call.out.value = ZeroValue
        /\ cache = call.before
        /\ CacheLen(cache) = CacheLen(call.before)
        /\ call.key \in DOMAIN call.before <=> call.key \in DOMAIN cache
        /\ call.key \in DOMAIN cache => cache[call.key] = call.before[call.key]

\* the loader failed for a key that has an expired entry, beside an entry of
\* the other key
C21_ErrorOnExpiredEntry ==
    /\ GetLoaderFailed
    /\ call.key \in DOMAIN call.before
    /\ call.at >= call.before[call.key].expiresAt
    /\ CacheLen(cache) = 2
    /\ call.out.err

\* the allowed calls of a key made at the window instants a, a + 1, ...
AllowedIn(key, a) ==
    {i \in DOMAIN allowed :
        /\ allowed[i].key = key
        /\ allowed[i].ok
        /\ a <= allowed[i].at
        /\ allowed[i].at < a + limiter.window}

\* the allowed calls of the key of call i made before it and less than a window ago
AllowedBefore(i) ==
    {j \in 1..(i - 1) :
        /\ allowed[j].key = allowed[i].key
        /\ allowed[j].ok
        /\ allowed[i].at - allowed[j].at < limiter.window}

\* C22: in any interval of window instants at most limit calls of Allow for a
\* key are answered true, whatever the order of the callers and of the cleanup;
\* a call is answered by the allowed calls of its own key alone, and it is
\* answered true again once fewer than limit of them are within the window
C22_AtMostLimitPerWindow ==
    /\ \A key \in LimiterKeys, a \in 0..MaxTime :
          Cardinality(AllowedIn(key, a)) <= limiter.limit
    /\ \A i \in DOMAIN allowed :
          allowed[i].ok <=> Cardinality(AllowedBefore(i)) < limiter.limit

\* a key was limited while the other key was allowed, and was allowed again later
C22_LimitedThenAllowedAgain ==
    \E i, j, k \in DOMAIN allowed :
        /\ i < j /\ j < k
        /\ allowed[i].key = "test-key" /\ ~allowed[i].ok
        /\ allowed[j].key = "other-key" /\ allowed[j].ok
        /\ allowed[j].at = allowed[i].at
        /\ allowed[k].key = "test-key" /\ allowed[k].ok
        /\ requests # <<>>

\* the last call of Allow was denied
AllowDenied == call.op = "Allow" /\ ~call.ok

\* the first instant from now on at which Allow(key) would answer true with the
\* stored times rq, one past the last instant considered if there is none
NextAllowedAt(rq, key, now) ==
    LET horizon == now + limiter.window
        free == {t \in now..horizon :
                    Cardinality({i \in DOMAIN Stored(rq, key) :
                                    t - Stored(rq, key)[i] < limiter.window})
                        < limiter.limit}
    IN  IF free = {} THEN horizon + 1
        ELSE CHOOSE t \in free : \A u \in free : t <= u

\* C30: no key ever has more than limit times stored; a denied call of Allow
\* leaves every other key as it was and keeps of its own key exactly the times
\* still within the window, in order, and the instant at which the key is
\* allowed again is the same after the denied call as before it
C30_DeniedRecordsNothing ==
    /\ \A key \in DOMAIN requests : Len(requests[key]) <= limiter.limit
    /\ AllowDenied =>
          /\ \A key \in LimiterKeys \ {call.key} :
                /\ key \in DOMAIN requests <=> key \in DOMAIN call.before
                /\ Stored(requests, key) = Stored(call.before, key)
          /\ Stored(requests, call.key) =
                SelectSeq(Stored(call.before, call.key),
                          LAMBDA t : call.at - t < limiter.window)
          /\ NextAllowedAt(requests, call.key, call.at) =
                NextAllowedAt(call.before, call.key, call.at)

\* a call was denied while an old time and a recent time of its key were stored
C30_DeniedWithOldAndRecent ==
    /\ AllowDenied
    /\ limiter.limit = 2
    /\ Len(Stored(call.before, call.key)) = 2
    /\ Len(Stored(requests, call.key)) = 2
    /\ \E key \in LimiterKeys \ {call.key} : Len(Stored(requests, key)) > 0

\* the last response answers an AuthDevice or RefreshToken request that arrived
\* after RevokeDevice had succeeded for its device
AnsweredAfterRevoke == answer.op \in {"AuthDevice", "RefreshToken"} /\ answer.late

\* no token was created for a request that arrived after the revocation, and
\* every device revoked with success is still revoked in the store
NoTokenOnceRevoked ==
    /\ \A t \in issued : ~t.late
    /\ \A id \in revocations : id \in DOMAIN devices /\ devices[id].revoked

\* C23: once RevokeDevice has succeeded for a device, every later AuthDevice
\* and RefreshToken request for it is answered 403 and creates no token,
\* whatever it presents, and the device stays revoked
C23_RevokedIsAnswered403 ==
    /\ NoTokenOnceRevoked
    /\ AnsweredAfterRevoke => answer.status = 403

\* C23 as the code has it: such a request creates no token and the device stays
\* revoked; it is answered 403 once its device has been read from the store,
\* and 400 or 401 when it is rejected before that
C23_RevokedNeverIssuesToken ==
    /\ NoTokenOnceRevoked
    /\ AnsweredAfterRevoke =>
          IF answer.read THEN answer.status = 403 ELSE answer.status \in {400, 401}

\* a device that was given a token is refused with 403 after its revocation
C23_RefusedAfterToken ==
    /\ answer = Answer("AuthDevice", DeviceID(1), 403, TRUE, TRUE)
    /\ \E t \in issued : t.device = DeviceID(1)

\* C24: a ProvisionDevice request whose MAC normalizes to the MAC of a
\* registered device is answered 409, and no two registered devices have the
\* same normalized MAC, whatever the order of the steps of the requests
C24_OneDevicePerMac ==
    /\ \A a, b \in DOMAIN devices : a # b => devices[a].mac # devices[b].mac
    /\ (/\ answer.op = "ProvisionDevice"
        /\ ~answer.read
        /\ ByMAC(devices, Normalize(answer.device)) # {}) => answer.status = 409

\* C25: Decode returns a message or an error for every buffer, never leaving
\* through a read outside the buffer, and at the start of every iteration the
\* cursor is within 0..len(data)
C25_DecodeIsTotalAndSafe ==
    /\ pc = "returned" => ret.status \in {"ok", "error"}
    /\ iterStart >= 0 => iterStart <= Len(data)
    /\ pc \in {"build", "decode"} => 0 <= pos /\ pos <= Len(data)

\* the requests that called SchemaCache.Get after Save had returned, and hold
\* the schema Get gave them
GotAfterSave ==
    {h \in DOMAIN inflight :
        /\ inflight[h].started = "done"
        /\ inflight[h].pc \in {"fill", "read", "first", "second", "done"}}

\* C26: once SchemaCache.Save has returned without error, every Get of the key
\* that starts later gets the saved schema, also when a Get that missed the
\* cache was in flight during the Save; and a Save that failed in the store
\* leaves the cache without the new schema
C26_GetAfterSaveReturnsSaved ==
    /\ \A h \in GotAfterSave : inflight[h].schema = NewSchema
    /\ uploader = "failed" =>
          /\ schemaStore = OldSchema
          /\ SchemaKey \in DOMAIN cache => cache[SchemaKey].value = OldSchema

\* the Save calls of the request that succeeded
SavesOk == {i \in DOMAIN saves : saves[i].ok}

\* C27: when Save fails for a reading of a decoded batch, Save is still called
\* for every surviving measurement, the response is 200, and the count of the
\* response and of the published event is the number of Save calls that succeeded
C27_FailedSaveIsNotCounted ==
    ReachedDecoding /\ BatchWellFormed /\ SavesOk # DOMAIN saves =>
        /\ Len(saves) = Cardinality(SurvivorPlaces)
        /\ resp.status = 200
        /\ resp.measurements = Cardinality(SavesOk)
        /\ \A i \in DOMAIN published : published[i].count = Cardinality(SavesOk)

\* the first of two readings failed to save, the second was saved and counted
C27_FirstSaveFails ==
    /\ ReachedDecoding
    /\ BatchWellFormed
    /\ Len(saves) = 2
    /\ SavesOk = {2}
    /\ resp.measurements = 1
    /\ Len(published) = 1
    /\ published[1].count = 1

\* the places of the batch whose id is in the schema and that carry no field
\* with a number in 2..8
NoValuePlaces ==
    LET msgs == SentMessages
        ids == SchemaIds
    IN {k \in DOMAIN msgs : SentID(msgs[k]) \in ids /\ ValuePlaces(msgs[k]) = {}}

\* C28: a measurement whose id is in the schema and that carries no field of
\* 2..8 is decoded with no value and with id 0 when it has no field 1; the
\* handler makes no Save call for it, stores no 0 in its place, does not count
\* it and still answers 200
C28_NoValueIsDropped ==
    /\ ReachedDecoding /\ BatchWellFormed /\ NoValuePlaces # {} =>
          LET survivors == Survivors
          IN /\ resp.status = 200
             /\ Len(saves) = Len(survivors)
             /\ resp.measurements = Cardinality(SavesOk)
             /\ \A j \in DOMAIN saves :
                   /\ TaggedBySchema(saves[j].data, SentID(survivors[j]))
                   /\ saves[j].data.Value = GoFloat64(SentValue(survivors[j]))
    /\ call.op = "decodeMeasurementBatch" /\ BatchWellFormed =>
          \A msgs \in {SentMessages} :
             \A k \in DOMAIN msgs :
                /\ ValuePlaces(msgs[k]) = {} =>
                      call.out.measurements[k].Value = NilValue
                /\ (\A i \in DOMAIN msgs[k] : msgs[k][i].Num # measurementFieldID) =>
                      call.out.measurements[k].ID = {}

\* a measurement without a value in front of a reading that is saved
C28_NoValueBeforeReading ==
    /\ ReachedDecoding
    /\ BatchWellFormed
    /\ NoValuePlaces = {1}
    /\ SurvivorPlaces = {2}
    /\ resp.status = 200
    /\ resp.measurements = 1
    /\ Len(saves) = 1
    /\ saves[1].data.Value # {}

\* the wire type the number of a value field declares
DeclaredWire(n) ==
    CASE n = 2 -> WireFixed32 [] n = 3 -> WireFixed64 [] OTHER -> WireVarint

\* C29: the interpreter of a value is picked by the field number alone: the
\* first field of 2..8 ends the scan whatever its wire type and gives a value of
\* the type of its number, which is the zero value when the wire type is not the
\* declared one and the transmitted bits when it is; no decode error is raised
C29_WireTypeIsNotChecked ==
    call.op = "decodeMeasurementBatch" /\ BatchWellFormed =>
        /\ call.out.status = "ok"
        /\ \A msgs \in {SentMessages} :
              /\ Len(call.out.measurements) = Len(msgs)
              /\ \A k \in DOMAIN msgs :
                    ValuePlaces(msgs[k]) # {} =>
                       LET f == msgs[k][First(ValuePlaces(msgs[k]))]
                           v == call.out.measurements[k].Value
                       IN /\ v.type = TypeOfNumber(Val(f.Num))
                          /\ v.bits = IF f.WireType = DeclaredWire(Val(f.Num))
                                      THEN SentBits(f) ELSE {}

\* a float sent as the varint 5 before an int64 field: the value is 0.0
C29_FloatAsVarintIsZero ==
    /\ call.op = "decodeMeasurementBatch"
    /\ Len(sent) = 2
    /\ SentMessages[1] = MismatchThenValueMsg
    /\ SentMessages[2] = TemperatureMsg
    /\ call.out.measurements[1].Value = TypedValue("float32", {})
    /\ call.out.measurements[2].Value = TypedValue("float32", BitsOf(1102839808))

====
